---- MODULE Spec2Model ----
(***************************************************************************)
(* A model of the intelligent-document-analyst pipeline:                   *)
(*   DocumentProcessor -> SectionExtractor -> RelevanceRanker              *)
(*   -> OutputFormatter, driven by DocumentAnalyst.analyze.                *)
(* Text is a sequence of one-character strings; offsets are 0-based as in  *)
(* Python, so the character at offset p of t is t[p + 1].                  *)
(***************************************************************************)
EXTENDS Integers, Sequences, FiniteSets, TLC

\* ------------------------------------------------------------------ text

UpperChars == <<"A","B","C","D","E","F","G","H","I","J","K","L","M",
                "N","O","P","Q","R","S","T","U","V","W","X","Y","Z">>

LowerChars == <<"a","b","c","d","e","f","g","h","i","j","k","l","m",
                "n","o","p","q","r","s","t","u","v","w","x","y","z">>

LowerMap == [c \in {UpperChars[i] : i \in 1..26} |->
               LowerChars[CHOOSE i \in 1..26 : UpperChars[i] = c]]

Letters == {UpperChars[i] : i \in 1..26} \cup {LowerChars[i] : i \in 1..26}

Digits == {"0","1","2","3","4","5","6","7","8","9"}

Whitespace == {" ", "\n", "\t"}

\* str.lower() on one character
LowerChar(c) == IF c \in DOMAIN LowerMap THEN LowerMap[c] ELSE c

\* str.lower(); the concatenation makes the result a tuple, built once
Lower(t) == <<>> \o [i \in 1..Len(t) |-> LowerChar(t[i])]

\* t[a:b] for 0 <= a, with Python's clamping of b to len(t)
Slice(t, a, b) ==
    LET e == IF b < Len(t) THEN b ELSE Len(t)
    IN  IF a >= e THEN <<>> ELSE SubSeq(t, a + 1, e)

\* the offset of the first character at or after p that is not in cls, or len(t)
SkipWhile(t, p, cls) ==
    IF p >= Len(t) THEN p
    ELSE CHOOSE q \in p..Len(t) :
            /\ q = Len(t) \/ t[q + 1] \notin cls
            /\ \A r \in p..(q - 1) : t[r + 1] \in cls

\* the offset of the first character at or after p that is in cls, or len(t)
SkipUntil(t, p, cls) ==
    IF p >= Len(t) THEN p
    ELSE CHOOSE q \in p..Len(t) :
            /\ q = Len(t) \/ t[q + 1] \in cls
            /\ \A r \in p..(q - 1) : t[r + 1] \notin cls

\* the end offset of t[:e] once trailing whitespace is dropped
RStripEnd(t, e) ==
    CHOOSE q \in 0..e :
        /\ q = 0 \/ t[q] \notin Whitespace
        /\ \A r \in (q + 1)..e : t[r] \in Whitespace

\* str.strip()
Strip(t) ==
    LET a == SkipWhile(t, 0, Whitespace)
    IN  Slice(t, a, RStripEnd(t, Len(t)))

\* needle in haystack (Python's substring test)
Contains(h, w) ==
    \E i \in 0..(Len(h) - Len(w)) : SubSeq(h, i + 1, i + Len(w)) = w

\* the offsets at which the whitespace-separated words of t start
WordStarts(t) ==
    {a \in 0..(Len(t) - 1) :
        t[a + 1] \notin Whitespace /\ (a = 0 \/ t[a] \in Whitespace)}

\* set(t.split())
WordSet(t) == {Slice(t, a, SkipUntil(t, a, Whitespace)) : a \in WordStarts(t)}

\* t.split(): the whitespace-separated words, in order
Split(t) ==
    LET S == WordStarts(t)
        nth(i) == CHOOSE a \in S : Cardinality({b \in S : b < a}) = i - 1
    IN  [i \in 1..Cardinality(S) |-> Slice(t, nth(i), SkipUntil(t, nth(i), Whitespace))]

\* t.split('\n')[:n]: the first n lines from offset p on, empty ones included
RECURSIVE FirstLinesFrom(_, _, _)
FirstLinesFrom(t, p, n) ==
    LET e == SkipUntil(t, p, {"\n"})
    IN  IF n = 0 THEN <<>>
        ELSE IF e >= Len(t) THEN <<Slice(t, p, e)>>
        ELSE <<Slice(t, p, e)>> \o FirstLinesFrom(t, e + 1, n - 1)

FirstLines(t, n) == FirstLinesFrom(t, 0, n)

\* set(words)
ToSet(s) == {s[i] : i \in 1..Len(s)}

\* Python's None, where the code can be handed one in place of a string
None == <<"<None>">>

\* str(n) for n >= 0
RECURSIVE IntToText(_)
IntToText(n) ==
    LET d == <<"0","1","2","3","4","5","6","7","8","9">>[(n % 10) + 1]
    IN  IF n < 10 THEN <<d>> ELSE IntToText(n \div 10) \o <<d>>

\* the concatenation of a sequence of sequences
RECURSIVE Concat(_)
Concat(ss) == IF ss = <<>> THEN <<>> ELSE Head(ss) \o Concat(Tail(ss))

Min(a, b) == IF a < b THEN a ELSE b

\* In applied to value: a local variable that is assigned once and then read
With(value, In(_)) == In(value)

\* ------------------------------------------------- SectionExtractor: patterns

W_abstract == <<"a","b","s","t","r","a","c","t">>

W_introduction == <<"i","n","t","r","o","d","u","c","t","i","o","n">>

W_methodology == <<"m","e","t","h","o","d","o","l","o","g","y">>

W_results == <<"r","e","s","u","l","t","s">>

W_discussion == <<"d","i","s","c","u","s","s","i","o","n">>

W_conclusion == <<"c","o","n","c","l","u","s","i","o","n">>

W_references == <<"r","e","f","e","r","e","n","c","e","s">>

W_background == <<"b","a","c","k","g","r","o","u","n","d">>

W_methods == <<"m","e","t","h","o","d","s">>

W_method == <<"m","e","t","h","o","d">>

\* self.header_patterns, in list order.  kind "numbered" is ^\d+\.\s+([A-Z][^.]*),
\* "allcaps" is ^([A-Z][A-Z\s]+)$ and "word" is ^(Word)\s*$; every pattern is
\* applied with re.MULTILINE | re.IGNORECASE.
header_patterns ==
    << [kind |-> "numbered", word |-> <<>>],
       [kind |-> "allcaps",  word |-> <<>>],
       [kind |-> "word", word |-> W_abstract],
       [kind |-> "word", word |-> W_introduction],
       [kind |-> "word", word |-> W_methodology],
       [kind |-> "word", word |-> W_results],
       [kind |-> "word", word |-> W_discussion],
       [kind |-> "word", word |-> W_conclusion],
       [kind |-> "word", word |-> W_references],
       [kind |-> "word", word |-> W_background],
       [kind |-> "word", word |-> W_methods] >>

\* a failed match
NoMatch == [start |-> -1, end |-> -1, gs |-> -1, ge |-> -1]

\* ^ under re.MULTILINE: the start of the string or just after a newline
LineStart(t, p) == p = 0 \/ t[p] = "\n"

\* $ under re.MULTILINE, tried from q backwards down to lo (the backtracking of
\* the greedy [A-Z\s]+ or \s*): the largest offset in lo..q that is the end of the
\* string or stands before a newline, or -1
LastLineEnd(t, q, lo) ==
    LET AtEnd(r) == r = Len(t) \/ t[r + 1] = "\n"
    IN  IF \E r \in lo..q : AtEnd(r)
        THEN CHOOSE r \in lo..q : AtEnd(r) /\ \A x \in (r + 1)..q : ~AtEnd(x)
        ELSE -1

\* ^\d+\.\s+([A-Z][^.]*) at offset p; group 1 runs to the next "." or the end
MatchNumbered(t, p) ==
    LET d == SkipWhile(t, p, Digits)
        s == SkipWhile(t, d + 1, Whitespace)
        e == SkipUntil(t, s + 1, {"."})
    IN  IF /\ d > p
           /\ d < Len(t) /\ t[d + 1] = "."
           /\ s > d + 1
           /\ s < Len(t) /\ t[s + 1] \in Letters
        THEN [start |-> p, end |-> e, gs |-> s, ge |-> e]
        ELSE NoMatch

\* ^([A-Z][A-Z\s]+)$ at offset p; with IGNORECASE [A-Z] is any letter
MatchAllCaps(t, p) ==
    LET r == SkipWhile(t, p + 1, Letters \cup Whitespace)
        q == LastLineEnd(t, r, p + 2)
    IN  IF p < Len(t) /\ t[p + 1] \in Letters /\ q >= 0
        THEN [start |-> p, end |-> q, gs |-> p, ge |-> q]
        ELSE NoMatch

\* ^(Word)\s*$ at offset p, the word compared without case
MatchWord(t, p, w) ==
    LET n == Len(w)
        r == SkipWhile(t, p + n, Whitespace)
        q == LastLineEnd(t, r, p + n)
    IN  IF /\ p + n <= Len(t)
           /\ \A j \in 1..n : LowerChar(t[p + j]) = w[j]
           /\ q >= 0
        THEN [start |-> p, end |-> q, gs |-> p, ge |-> p + n]
        ELSE NoMatch

\* pattern.match at offset p of t
MatchAt(pat, t, p) ==
    IF ~LineStart(t, p) THEN NoMatch
    ELSE IF pat.kind = "numbered" THEN MatchNumbered(t, p)
    ELSE IF pat.kind = "allcaps" THEN MatchAllCaps(t, p)
    ELSE MatchWord(t, p, pat.word)

\* re.search(pattern, t) from offset p on: the leftmost match, or NoMatch
RECURSIVE SearchFrom(_, _, _)
SearchFrom(pat, t, p) ==
    IF p >= Len(t) THEN NoMatch
    ELSE With(MatchAt(pat, t, p), LAMBDA m :
             IF m.start >= 0 THEN m
             ELSE SearchFrom(pat, t, SkipUntil(t, p, {"\n"}) + 1))

\* re.finditer(pattern, t): the non-overlapping matches, left to right
RECURSIVE FindIterFrom(_, _, _)
FindIterFrom(pat, t, p) ==
    With(SearchFrom(pat, t, p), LAMBDA m :
        IF m.start < 0 THEN <<>> ELSE <<m>> \o FindIterFrom(pat, t, m.end))

FindIter(pat, t) == FindIterFrom(pat, t, 0)

\* ------------------------------------------------------ SectionExtractor

\* "Skip very short sections": the least len(section_text) that is kept
MinSectionLength == 50

\* max_section_length
MaxSectionLength == 5000

\* a page becomes a section when len(page_text.strip()) exceeds this
MinPageLength == 200

\* a line is a "reasonable title" when it is shorter than this
MaxTitleLength == 100

\* the first lines of a page that are searched for a title
TitleLines == 5

\* confidence_score, in tenths: 0.7 for the structural pass, 0.5 for a page
StructuralConfidence == 7

PageConfidence == 5

\* a value returned / an exception raised
Ok(v) == [exc |-> FALSE, val |-> v]

Raised == [exc |-> TRUE, val |-> <<>>]

T_content == <<"c","o","n","t","e","n","t">>

\* type_mapping, in dict order
type_mapping ==
    << <<W_abstract, W_abstract>>,
       <<W_introduction, W_introduction>>,
       <<W_methodology, W_methods>>,
       <<W_method, W_methods>>,
       <<W_results, W_results>>,
       <<W_discussion, W_discussion>>,
       <<W_conclusion, W_conclusion>>,
       <<W_references, W_references>>,
       <<W_background, W_background>> >>

\* _classify_section_type
classify_section_type(title) ==
    LET title_lower == Lower(title)
        hits == {i \in 1..Len(type_mapping) : Contains(title_lower, type_mapping[i][1])}
    IN  IF hits = {} THEN T_content
        ELSE type_mapping[CHOOSE i \in hits : \A j \in hits : i <= j][2]

\* the loop of _find_section_end over header_patterns, from pattern k on
RECURSIVE NextHeaderFrom(_, _)
NextHeaderFrom(remaining_text, k) ==
    IF k > Len(header_patterns) THEN -1
    ELSE With(SearchFrom(header_patterns[k], remaining_text, 0), LAMBDA m :
             IF m.start >= 0 THEN m.start
             ELSE NextHeaderFrom(remaining_text, k + 1))

\* _find_section_end
find_section_end(text, start_pos) ==
    LET remaining_text == Slice(text, start_pos + 1, Len(text))
    IN  With(NextHeaderFrom(remaining_text, 1), LAMBDA nxt :
            IF nxt >= 0 THEN start_pos + 1 + nxt
            ELSE Min(start_pos + MaxSectionLength, Len(text)))

\* the loop of _estimate_page_number from page k on; len(None) raises
RECURSIVE EstimateFrom(_, _, _, _)
EstimateFrom(page_contents, position, k, current_pos) ==
    IF k > Len(page_contents) THEN Ok(Len(page_contents))
    ELSE LET page_text == page_contents[k].text
         IN  IF page_text = None THEN Raised
             ELSE IF current_pos + Len(page_text) > position
                  THEN Ok(page_contents[k].page_number)
             ELSE EstimateFrom(page_contents, position, k + 1,
                               current_pos + Len(page_text) + 2)

\* _estimate_page_number
estimate_page_number(doc, position) ==
    IF doc.page_contents = <<>> THEN Ok(1)
    ELSE EstimateFrom(doc.page_contents, position, 1, 0)

\* one header match of _extract_from_full_text, before the length test
Candidate(doc, m) ==
    LET text == doc.text_content
    IN  With(find_section_end(text, m.start), LAMBDA end_pos :
            [section_title |-> Slice(text, m.gs, m.ge),
             start_pos |-> m.start,
             end_pos |-> end_pos,
             section_text |-> Strip(Slice(text, m.start, end_pos))])

\* a faulty variant of the structural pass: no candidate is skipped as too short
AllCandidates(doc) ==
    Concat([k \in 1..Len(header_patterns) |->
        With(FindIter(header_patterns[k], doc.text_content), LAMBDA ms :
            [i \in 1..Len(ms) |-> Candidate(doc, ms[i])])])

\* the header matches of _extract_from_full_text, pattern by pattern, that are
\* not skipped as too short
Candidates(doc) ==
    SelectSeq(Concat([k \in 1..Len(header_patterns) |->
                  With(FindIter(header_patterns[k], doc.text_content), LAMBDA ms :
                      [i \in 1..Len(ms) |-> Candidate(doc, ms[i])])]),
              LAMBDA c : Len(c.section_text) >= MinSectionLength)

\* the header matches the loops of _extract_from_full_text visit, over all
\* patterns, whether or not a section is kept for them
header_matches(doc) ==
    IF doc.text_content = None THEN <<>>
    ELSE Concat([k \in 1..Len(header_patterns) |->
                    FindIter(header_patterns[k], doc.text_content)])

\* _extract_from_full_text
extract_from_full_text(doc) ==
    IF doc.text_content = None THEN Raised
    ELSE With(Candidates(doc), LAMBDA cs :
         With([i \in 1..Len(cs) |-> estimate_page_number(doc, cs[i].start_pos)],
              LAMBDA pg :
             IF \E i \in 1..Len(cs) : pg[i].exc THEN Raised
             ELSE Ok([i \in 1..Len(cs) |->
                       [document_name |-> doc.filename,
                        page_number |-> pg[i].val,
                        section_title |-> cs[i].section_title,
                        section_text |-> cs[i].section_text,
                        section_type |-> classify_section_type(cs[i].section_title),
                        confidence_score |-> StructuralConfidence,
                        start_position |-> cs[i].start_pos,
                        end_position |-> cs[i].end_pos]])))

\* the title search of _extract_from_pages over the first lines of a page
RECURSIVE PotentialTitle(_)
PotentialTitle(lines) ==
    IF lines = <<>> THEN <<>>
    ELSE LET line == Strip(Head(lines))
         IN  IF Len(line) > 0 /\ Len(line) < MaxTitleLength THEN line
             ELSE PotentialTitle(Tail(lines))

\* f"Page {page_num} Content"
PageTitle(page_num) ==
    <<"P","a","g","e"," ">> \o IntToText(page_num) \o <<" ","C","o","n","t","e","n","t">>

\* the section _extract_from_pages appends for one page
PageSection(doc, page_info) ==
    LET page_text == page_info.text
    IN  With(PotentialTitle(FirstLines(page_text, TitleLines)), LAMBDA potential_title :
            [document_name |-> doc.filename,
             page_number |-> page_info.page_number,
             section_title |-> IF potential_title # <<>> THEN potential_title
                               ELSE PageTitle(page_info.page_number),
             section_text |-> page_text,
             section_type |-> T_content,
             confidence_score |-> PageConfidence,
             start_position |-> 0,
             end_position |-> Len(page_text)])

\* a faulty variant of _extract_from_pages: the page text is measured with the
\* whitespace at its ends
extract_from_pages_unstripped(doc) ==
    LET pages == doc.page_contents
        long == SelectSeq(pages, LAMBDA pg : Len(pg.text) > MinPageLength)
    IN  IF \E k \in 1..Len(pages) : pages[k].text = None THEN Raised
        ELSE Ok([i \in 1..Len(long) |-> PageSection(doc, long[i])])

\* _extract_from_pages; None.strip() raises
extract_from_pages(doc) ==
    LET pages == doc.page_contents
        long == SelectSeq(pages, LAMBDA pg : Len(Strip(pg.text)) > MinPageLength)
    IN  IF \E k \in 1..Len(pages) : pages[k].text = None THEN Raised
        ELSE Ok([i \in 1..Len(long) |-> PageSection(doc, long[i])])

\* a faulty variant of _remove_duplicate_sections: the last section of every
\* title key is kept
remove_duplicate_sections_keeping_last(sections) ==
    LET title_key(i) == Strip(Lower(sections[i].section_title))
        last(i) == \A j \in (i + 1)..Len(sections) : title_key(j) # title_key(i)
    IN  Concat([i \in 1..Len(sections) |-> IF last(i) THEN <<sections[i]>> ELSE <<>>])

\* _remove_duplicate_sections: the first section of every title key is kept
remove_duplicate_sections(sections) ==
    LET title_key(i) == Strip(Lower(sections[i].section_title))
        first(i) == \A j \in 1..(i - 1) : title_key(j) # title_key(i)
        keep == {i \in 1..Len(sections) : first(i)}
        RECURSIVE Pick(_)
        Pick(i) == IF i > Len(sections) THEN <<>>
                   ELSE (IF i \in keep THEN <<sections[i]>> ELSE <<>>) \o Pick(i + 1)
    IN  Pick(1)

\* a faulty variant of the insertion: x is put before its equals
RECURSIVE InsertByStartBeforeEquals(_, _)
InsertByStartBeforeEquals(sorted, x) ==
    IF sorted = <<>> THEN <<x>>
    ELSE IF Head(sorted).start_position < x.start_position
         THEN <<Head(sorted)>> \o InsertByStartBeforeEquals(Tail(sorted), x)
    ELSE <<x>> \o sorted

\* the insertion of x into a list sorted by start_position, after its equals
RECURSIVE InsertByStart(_, _)
InsertByStart(sorted, x) ==
    IF sorted = <<>> THEN <<x>>
    ELSE IF Head(sorted).start_position <= x.start_position
         THEN <<Head(sorted)>> \o InsertByStart(Tail(sorted), x)
    ELSE <<x>> \o sorted

\* sorted(unique_sections, key=lambda x: x.start_position): a stable sort
RECURSIVE SortedByStart(_)
SortedByStart(sections) ==
    IF sections = <<>> THEN <<>>
    ELSE InsertByStart(SortedByStart(SubSeq(sections, 1, Len(sections) - 1)),
                       sections[Len(sections)])

\* a faulty variant of the test: _extract_from_pages is called for every document
page_pass_always(full_text_sections) == TRUE

\* "if len(full_text_sections) < 2": whether _extract_from_pages is called
page_pass_needed(full_text_sections) == Len(full_text_sections) < 2

\* _extract_sections_from_document
extract_sections_from_document(doc) ==
    With(extract_from_full_text(doc), LAMBDA full :
    With(IF full.exc \/ ~page_pass_needed(full.val) THEN Ok(<<>>)
         ELSE extract_from_pages(doc), LAMBDA page :
        IF full.exc \/ page.exc THEN Raised
        ELSE Ok(SortedByStart(remove_duplicate_sections(full.val \o page.val)))))

\* ------------------------------------------------------ DocumentProcessor

\* a page whose extract_text() raises
PageFailure == <<"<raises>">>

\* "page_text = page.extract_text() or ''"
PageText(extracted) == IF extracted = None THEN <<>> ELSE extracted

\* the loop of _extract_with_pypdf2 from page k on: a page that raises is
\* skipped, and the others keep the number enumerate(pages, 1) gave them
RECURSIVE PagesFrom(_, _)
PagesFrom(pages, k) ==
    IF k > Len(pages) THEN <<>>
    ELSE (IF pages[k] = PageFailure THEN <<>>
          ELSE <<[page_number |-> k, text |-> PageText(pages[k])]>>)
         \o PagesFrom(pages, k + 1)

\* _extract_with_pypdf2: (full_text.strip(), page_contents); open() raises for
\* a file that cannot be read
extract_with_pypdf2(file) ==
    LET page_contents == PagesFrom(file.pages, 1)
        full_text == Concat([i \in 1..Len(page_contents) |->
                               page_contents[i].text \o <<"\n", "\n">>])
    IN  IF ~file.readable THEN Raised
        ELSE Ok([text_content |-> Strip(full_text), page_contents |-> page_contents])

\* _process_single_document
process_single_document(file) ==
    With(extract_with_pypdf2(file), LAMBDA got :
        IF got.exc THEN Raised
        ELSE Ok([filename |-> file.name,
                 text_content |-> got.val.text_content,
                 page_contents |-> got.val.page_contents]))

\* process_documents: a document that raises is skipped
RECURSIVE process_documents(_)
process_documents(document_paths) ==
    IF document_paths = <<>> THEN <<>>
    ELSE With(process_single_document(Head(document_paths)), LAMBDA r :
             (IF r.exc THEN <<>> ELSE <<r.val>>)
             \o process_documents(Tail(document_paths)))

\* -------------------------------------------------------- PersonaAnalyzer

\* expertise_keywords, in dict order
expertise_keywords ==
    << [key |-> <<"r","e","s","e","a","r","c","h","e","r">>,
        keywords |-> << <<"r","e","s","e","a","r","c","h">>,
                      <<"a","n","a","l","y","s","i","s">>,
                      <<"m","e","t","h","o","d","o","l","o","g","y">>,
                      <<"d","a","t","a">> >>],
       [key |-> <<"a","n","a","l","y","s","t">>,
        keywords |-> << <<"a","n","a","l","y","s","i","s">>,
                      <<"t","r","e","n","d","s">>,
                      <<"m","e","t","r","i","c","s">>,
                      <<"p","e","r","f","o","r","m","a","n","c","e">> >>],
       [key |-> <<"s","t","u","d","e","n","t">>,
        keywords |-> << <<"l","e","a","r","n","i","n","g">>,
                      <<"c","o","n","c","e","p","t","s">>,
                      <<"f","u","n","d","a","m","e","n","t","a","l","s">>,
                      <<"e","x","a","m">> >>],
       [key |-> <<"i","n","v","e","s","t","m","e","n","t">>,
        keywords |-> << <<"f","i","n","a","n","c","i","a","l">>,
                      <<"r","e","v","e","n","u","e">>,
                      <<"m","a","r","k","e","t">>,
                      <<"g","r","o","w","t","h">> >>],
       [key |-> <<"p","h","d">>,
        keywords |-> << <<"a","d","v","a","n","c","e","d">>,
                      <<"t","h","e","o","r","e","t","i","c","a","l">>,
                      <<"m","e","t","h","o","d","o","l","o","g","y">>,
                      <<"l","i","t","e","r","a","t","u","r","e">> >>],
       [key |-> <<"c","h","e","m","i","s","t","r","y">>,
        keywords |-> << <<"c","h","e","m","i","c","a","l">>,
                      <<"r","e","a","c","t","i","o","n","s">>,
                      <<"c","o","m","p","o","u","n","d","s">>,
                      <<"m","e","c","h","a","n","i","s","m","s">> >>] >>

\* interest_keywords, in list order
interest_keywords ==
    << <<"m","e","t","h","o","d","o","l","o","g","y">>,
       <<"d","a","t","a","s","e","t">>,
       <<"b","e","n","c","h","m","a","r","k">>,
       <<"p","e","r","f","o","r","m","a","n","c","e">>,
       <<"r","e","v","e","n","u","e">>,
       <<"t","r","e","n","d">>,
       <<"i","n","v","e","s","t","m","e","n","t">>,
       <<"s","t","r","a","t","e","g","y">>,
       <<"c","o","n","c","e","p","t">>,
       <<"m","e","c","h","a","n","i","s","m">>,
       <<"k","i","n","e","t","i","c","s">>,
       <<"r","e","a","c","t","i","o","n">>,
       <<"r","e","v","i","e","w">>,
       <<"a","n","a","l","y","s","i","s">>,
       <<"s","u","m","m","a","r","y">>,
       <<"c","o","m","p","a","r","i","s","o","n">> >>

\* stop_words of _extract_priority_keywords
stop_words ==
    { <<"t","h","e">>,
      <<"a","n","d">>,
      <<"o","r">>,
      <<"b","u","t">>,
      <<"i","n">>,
      <<"o","n">>,
      <<"a","t">>,
      <<"t","o">>,
      <<"f","o","r">>,
      <<"o","f">>,
      <<"w","i","t","h">>,
      <<"b","y">> }

\* areas[:5], key_interests[:5] and unique_words[:10]
MaxExpertiseAreas == 5

MaxKeyInterests == 5

MaxPriorityKeywords == 10

\* a word is kept when it is longer than this
MinWordLength == 3

\* _extract_expertise_areas
extract_expertise_areas(persona) ==
    LET persona_lower == Lower(persona)
        areas == Concat([i \in 1..Len(expertise_keywords) |->
                    IF Contains(persona_lower, expertise_keywords[i].key)
                    THEN expertise_keywords[i].keywords ELSE <<>>])
    IN  Slice(areas, 0, MaxExpertiseAreas)

\* _extract_key_interests
extract_key_interests(job_to_be_done) ==
    LET job_lower == Lower(job_to_be_done)
    IN  Slice(SelectSeq(interest_keywords, LAMBDA kw : Contains(job_lower, kw)),
              0, MaxKeyInterests)

\* word.strip(".,!?;:")
StripPunctuation(word) ==
    LET punct == {".", ",", "!", "?", ";", ":"}
        a == SkipWhile(word, 0, punct)
        e == CHOOSE q \in 0..Len(word) :
                /\ q = 0 \/ word[q] \notin punct
                /\ \A r \in (q + 1)..Len(word) : word[r] \in punct
    IN  Slice(word, a, e)

\* a list without its repeats, the first occurrence of each element kept
Unique(words) ==
    LET keep == {i \in 1..Len(words) : \A j \in 1..(i - 1) : words[j] # words[i]}
        RECURSIVE Pick(_)
        Pick(i) == IF i > Len(words) THEN <<>>
                   ELSE (IF i \in keep THEN <<words[i]>> ELSE <<>>) \o Pick(i + 1)
    IN  Pick(1)

\* _extract_priority_keywords
extract_priority_keywords(persona, job_to_be_done) ==
    LET combined_text == Lower(persona \o <<" ">> \o job_to_be_done)
        words == Split(combined_text)
        kept == SelectSeq(words, LAMBDA w : Len(w) > MinWordLength /\ w \notin stop_words)
        priority_words == [i \in 1..Len(kept) |-> StripPunctuation(kept[i])]
    IN  Slice(Unique(priority_words), 0, MaxPriorityKeywords)

\* analyze_persona
analyze_persona(persona, job_to_be_done) ==
    [persona |-> persona,
     job_to_be_done |-> job_to_be_done,
     expertise_areas |-> extract_expertise_areas(persona),
     key_interests |-> extract_key_interests(job_to_be_done),
     priority_keywords |-> extract_priority_keywords(persona, job_to_be_done)]

\* -------------------------------------------------------- RelevanceRanker
\* A factor and a score are exact fractions <<numerator, denominator>> with a
\* positive denominator, where the code computes with floats.

RECURSIVE GCD(_, _)
GCD(a, b) == IF b = 0 THEN a ELSE GCD(b, a % b)

\* n/d in lowest terms
Frac(n, d) == LET g == GCD(n, d) IN IF n = 0 THEN <<0, 1>> ELSE <<n \div g, d \div g>>

FracAdd(x, y) ==
    LET g == GCD(x[2], y[2])
    IN  Frac(x[1] * (y[2] \div g) + y[1] * (x[2] \div g), (x[2] \div g) * y[2])

FracMul(x, y) ==
    LET a == Frac(x[1], y[2])
        b == Frac(y[1], x[2])
    IN  <<a[1] * b[1], a[2] * b[2]>>

\* -1, 0 or 1 as x is below, equal to or above y: the integer parts are compared,
\* then the reciprocals of the remainders, so that no product is formed
RECURSIVE FracCmp(_, _)
FracCmp(x, y) ==
    LET qx == x[1] \div x[2]
        qy == y[1] \div y[2]
        rx == x[1] % x[2]
        ry == y[1] % y[2]
    IN  IF qx # qy THEN (IF qx < qy THEN -1 ELSE 1)
        ELSE IF rx = 0 \/ ry = 0
             THEN (IF rx = ry THEN 0 ELSE IF rx = 0 THEN -1 ELSE 1)
        ELSE FracCmp(<<y[2], ry>>, <<x[2], rx>>)

FracLE(x, y) == FracCmp(x, y) <= 0

FracLT(x, y) == FracCmp(x, y) < 0

\* a faulty variant of the cap: min(x, 1.0) is left out
Uncapped(x) == x

\* min(x, 1.0)
FracMin1(x) == IF FracLE(x, <<1, 1>>) THEN x ELSE <<1, 1>>

\* a score given in tenths
Tenths(n) == Frac(n, 10)

\* self.ranking_weights, in hundredths, keyed as the dict is
ranking_weights ==
    [keyword_match |-> 25,
     semantic_similarity |-> 35,
     section_type_importance |-> 25,
     content_length |-> 5,
     position_bias |-> 5,
     title_relevance |-> 5]

\* the keys of factors, in the order _calculate_relevance_score inserts them
FactorNames ==
    <<"keyword_match", "semantic_similarity", "section_type_importance",
      "content_length", "position_bias", "title_relevance">>

\* the number of list elements that satisfy Test
CountSeq(seq, Test(_)) == Cardinality({i \in 1..Len(seq) : Test(seq[i])})

\* _calculate_keyword_match_score; None.lower() raises
calculate_keyword_match_score(section, persona_analysis) ==
    LET section_text_lower == Lower(section.section_text)
        section_title_lower == Lower(section.section_title)
        all_keywords == persona_analysis.expertise_areas
                        \o persona_analysis.key_interests
                        \o persona_analysis.priority_keywords
        total_keywords == Len(all_keywords)
        in_title(kw) == Contains(section_title_lower, Lower(kw))
        in_text(kw) == ~in_title(kw) /\ Contains(section_text_lower, Lower(kw))
        matches == 2 * CountSeq(all_keywords, in_title) + CountSeq(all_keywords, in_text)
    IN  IF section.section_text = None \/ section.section_title = None THEN Raised
        ELSE IF all_keywords = <<>> THEN Ok(<<0, 1>>)
        ELSE Ok(FracMin1(Frac(2 * matches, 3 * total_keywords)))

\* the job words of _calculate_section_type_score
J_literature_review == <<"l","i","t","e","r","a","t","u","r","e"," ","r","e","v","i","e","w">>


J_review == <<"r","e","v","i","e","w">>


J_analysis == <<"a","n","a","l","y","s","i","s">>


J_analyze == <<"a","n","a","l","y","z","e">>


J_exam == <<"e","x","a","m">>


J_study == <<"s","t","u","d","y">>


\* the type_scores dict of each branch, in tenths, listed in the order
\* abstract, introduction, methods, results, discussion, conclusion, references
TypeOrder ==
    <<W_abstract, W_introduction, W_methods, W_results, W_discussion,
      W_conclusion, W_references>>

ReviewScores == <<9, 8, 7, 6, 8, 7, 5>>

AnalysisScores == <<7, 6, 9, 9, 8, 7, 3>>

ExamScores == <<6, 8, 7, 5, 6, 8, 2>>

DefaultScores == <<7, 7, 6, 6, 6, 6, 3>>

\* "type_scores.get(section_type, 0.5)", in tenths
UnknownTypeScore == 5

\* a faulty variant of _calculate_section_type_score: the analysis branch is
\* tested before the review branch
calculate_section_type_score_analysis_first(section, persona_analysis) ==
    LET job_lower == Lower(persona_analysis.job_to_be_done)
        type_scores ==
            IF Contains(job_lower, J_analysis) \/ Contains(job_lower, J_analyze)
            THEN AnalysisScores
            ELSE IF Contains(job_lower, J_literature_review) \/ Contains(job_lower, J_review)
            THEN ReviewScores
            ELSE IF Contains(job_lower, J_exam) \/ Contains(job_lower, J_study)
            THEN ExamScores
            ELSE DefaultScores
        hit == {i \in 1..Len(TypeOrder) : TypeOrder[i] = section.section_type}
    IN  IF hit = {} THEN Tenths(UnknownTypeScore)
        ELSE Tenths(type_scores[CHOOSE i \in hit : TRUE])

\* _calculate_section_type_score
calculate_section_type_score(section, persona_analysis) ==
    LET job_lower == Lower(persona_analysis.job_to_be_done)
        type_scores ==
            IF Contains(job_lower, J_literature_review) \/ Contains(job_lower, J_review)
            THEN ReviewScores
            ELSE IF Contains(job_lower, J_analysis) \/ Contains(job_lower, J_analyze)
            THEN AnalysisScores
            ELSE IF Contains(job_lower, J_exam) \/ Contains(job_lower, J_study)
            THEN ExamScores
            ELSE DefaultScores
        hit == {i \in 1..Len(TypeOrder) : TypeOrder[i] = section.section_type}
    IN  IF hit = {} THEN Tenths(UnknownTypeScore)
        ELSE Tenths(type_scores[CHOOSE i \in hit : TRUE])

\* the length buckets of _calculate_content_length_score
TooShortLength == 100

ShortLength == 500

IdealLength == 3000

LongLength == 5000

\* _calculate_content_length_score
calculate_content_length_score(section) ==
    LET text_length == Len(section.section_text)
    IN  IF text_length < TooShortLength THEN Tenths(1)
        ELSE IF text_length < ShortLength THEN Tenths(6)
        ELSE IF text_length <= IdealLength THEN Tenths(10)
        ELSE IF text_length <= LongLength THEN Tenths(8)
        ELSE Tenths(6)

\* the page buckets of _calculate_position_bias_score
FirstPages == 2

EarlyPages == 5

MiddlePages == 10

\* _calculate_position_bias_score
calculate_position_bias_score(section) ==
    LET page_num == section.page_number
    IN  IF page_num <= FirstPages THEN Tenths(10)
        ELSE IF page_num <= EarlyPages THEN Tenths(8)
        ELSE IF page_num <= MiddlePages THEN Tenths(6)
        ELSE Tenths(4)

\* the common words _calculate_title_relevance_score filters out
title_stop_words ==
    { <<"t","h","a","t">>, <<"w","i","t","h">>, <<"f","r","o","m">>, <<"t","h","i","s">> }


\* _calculate_title_relevance_score
calculate_title_relevance_score(section, persona_analysis) ==
    LET title_lower == Lower(section.section_title)
        job_keywords == Split(Lower(persona_analysis.job_to_be_done))
        meaningful_keywords ==
            SelectSeq(job_keywords,
                      LAMBDA w : Len(w) > MinWordLength /\ w \notin title_stop_words)
        matches == CountSeq(meaningful_keywords, LAMBDA kw : Contains(title_lower, kw))
    IN  IF meaningful_keywords = <<>> THEN Tenths(5)
        ELSE FracMin1(Frac(matches, Len(meaningful_keywords)))

\* |A & B| / |A | B| of two word sets, 0.0 when either is empty
Jaccard(words1, words2) ==
    IF words1 = {} \/ words2 = {} THEN <<0, 1>>
    ELSE Frac(Cardinality(words1 \cap words2), Cardinality(words1 \cup words2))

\* a faulty variant of the word overlap: the texts are not lower-cased
fallback_similarity_cased(text1, text2) ==
    Jaccard(WordSet(text1), WordSet(text2))

\* ModelManager._fallback_similarity_score
fallback_similarity_score(text1, text2) ==
    Jaccard(WordSet(Lower(text1)), WordSet(Lower(text2)))

\* a faulty variant of compute_similarity: the missing encoder is reported to
\* the caller as an error
compute_similarity_surfacing(env, text1, text2) == Raised

\* ModelManager.compute_similarity: get_sentence_encoder() returns None, so the
\* word overlap is the result; a manager that was injected may raise instead
compute_similarity(env, text1, text2) ==
    IF env.backend = "raises" THEN Raised
    ELSE Ok(fallback_similarity_score(text1, text2))

\* ------------------------------------------- PersonaAnalyzer, enhanced path
\* domain_keywords of _extract_semantic_keywords, domain after domain
domain_keywords ==
    << <<"m","e","t","h","o","d","o","l","o","g","y">>,
       <<"a","n","a","l","y","s","i","s">>,
       <<"d","a","t","a">>,
       <<"s","t","u","d","y">>,
       <<"e","x","p","e","r","i","m","e","n","t">>,
       <<"h","y","p","o","t","h","e","s","i","s">>,
       <<"r","e","v","e","n","u","e">>,
       <<"i","n","v","e","s","t","m","e","n","t">>,
       <<"m","a","r","k","e","t">>,
       <<"f","i","n","a","n","c","i","a","l">>,
       <<"p","r","o","f","i","t">>,
       <<"g","r","o","w","t","h">>,
       <<"l","i","t","e","r","a","t","u","r","e">>,
       <<"r","e","v","i","e","w">>,
       <<"t","h","e","o","r","y">>,
       <<"c","o","n","c","e","p","t">>,
       <<"e","x","a","m","i","n","a","t","i","o","n">>,
       <<"s","t","u","d","y">>,
       <<"m","a","c","h","i","n","e"," ","l","e","a","r","n","i","n","g">>,
       <<"a","l","g","o","r","i","t","h","m">>,
       <<"n","e","u","r","a","l"," ","n","e","t","w","o","r","k">>,
       <<"d","a","t","a"," ","s","c","i","e","n","c","e">>,
       <<"r","e","a","c","t","i","o","n">>,
       <<"c","o","m","p","o","u","n","d">>,
       <<"m","o","l","e","c","u","l","a","r">>,
       <<"c","h","e","m","i","c","a","l">>,
       <<"s","y","n","t","h","e","s","i","s">> >>

\* expertise_pool of _extract_expertise_areas_enhanced
expertise_pool ==
    << <<"r","e","s","e","a","r","c","h">>,
       <<"a","n","a","l","y","s","i","s">>,
       <<"m","e","t","h","o","d","o","l","o","g","y">>,
       <<"d","a","t","a"," ","s","c","i","e","n","c","e">>,
       <<"m","a","c","h","i","n","e"," ","l","e","a","r","n","i","n","g">>,
       <<"f","i","n","a","n","c","i","a","l"," ","a","n","a","l","y","s","i","s">>,
       <<"i","n","v","e","s","t","m","e","n","t">>,
       <<"m","a","r","k","e","t"," ","r","e","s","e","a","r","c","h">>,
       <<"s","t","a","t","i","s","t","i","c","s">>,
       <<"a","c","a","d","e","m","i","c"," ","r","e","s","e","a","r","c","h">>,
       <<"l","i","t","e","r","a","t","u","r","e"," ","r","e","v","i","e","w">>,
       <<"t","h","e","o","r","e","t","i","c","a","l"," ","a","n","a","l","y","s","i","s">>,
       <<"c","o","m","p","u","t","a","t","i","o","n","a","l"," ","b","i","o","l","o","g","y">>,
       <<"b","i","o","i","n","f","o","r","m","a","t","i","c","s">>,
       <<"c","h","e","m","i","s","t","r","y">>,
       <<"b","i","o","c","h","e","m","i","s","t","r","y">> >>

\* "similarity > 0.3" and "similarity > 0.4", in tenths
KeywordThreshold == 3

ExpertiseThreshold == 4

\* enhanced_areas[:7] and all_interests[:7]
MaxEnhancedAreas == 7

MaxEnhancedInterests == 7

\* the orders in which the elements of a set may be listed
RECURSIVE Orders(_)
Orders(S) ==
    IF S = {} THEN {<<>>}
    ELSE UNION {{<<x>> \o o : o \in Orders(S \ {x})} : x \in S}

\* list(set(items))[:limit]: a set of strings has no order the code fixes, so
\* every order is a possible result
ListOfSet(items, limit) == {Slice(o, 0, limit) : o \in Orders(ToSet(items))}

\* _extract_tfidf_keywords: fit is what the TfidfVectorizer does with the
\* expanded texts, the keywords of positive score (at most 10, best first) or
\* an exception, which is caught and gives []
extract_tfidf_keywords(fit) == IF fit.exc THEN <<>> ELSE fit.val

\* _extract_semantic_keywords: a keyword is kept when its similarity to the
\* combined text exceeds 0.3, or, when compute_similarity raises, when it
\* occurs in the combined text
extract_semantic_keywords(env, persona, job_to_be_done) ==
    LET combined_text == persona \o <<" ">> \o job_to_be_done
        relevant(keyword) ==
            With(compute_similarity(env, combined_text, keyword), LAMBDA got :
                IF got.exc THEN Contains(Lower(combined_text), Lower(keyword))
                ELSE FracLT(Tenths(KeywordThreshold), got.val))
    IN  Slice(SelectSeq(domain_keywords, relevant), 0, MaxPriorityKeywords)

\* extract_priority_keywords_enhanced: both extractions catch their own
\* exceptions, so the basic method of its except clause is never reached
extract_priority_keywords_enhanced(env, fit, persona, job_to_be_done) ==
    ListOfSet(extract_tfidf_keywords(fit)
                  \o extract_semantic_keywords(env, persona, job_to_be_done),
              MaxPriorityKeywords)

\* the loop over expertise_pool from term k on: Raised when
\* compute_similarity raises
RECURSIVE WalkPool(_, _, _, _)
WalkPool(env, persona, enhanced_areas, k) ==
    IF k > Len(expertise_pool) THEN Ok(enhanced_areas)
    ELSE IF expertise_pool[k] \in ToSet(enhanced_areas)
    THEN WalkPool(env, persona, enhanced_areas, k + 1)
    ELSE With(compute_similarity(env, persona, expertise_pool[k]), LAMBDA got :
            IF got.exc THEN Raised
            ELSE WalkPool(env, persona,
                          IF FracLT(Tenths(ExpertiseThreshold), got.val)
                          THEN Append(enhanced_areas, expertise_pool[k])
                          ELSE enhanced_areas,
                          k + 1))

\* _extract_expertise_areas_enhanced
extract_expertise_areas_enhanced(env, persona) ==
    LET basic_areas == extract_expertise_areas(persona)
    IN  With(WalkPool(env, persona, basic_areas, 1), LAMBDA walked :
            IF walked.exc THEN basic_areas
            ELSE Slice(walked.val, 0, MaxEnhancedAreas))

\* _extract_key_interests_enhanced
extract_key_interests_enhanced(fit, job_to_be_done) ==
    ListOfSet(extract_key_interests(job_to_be_done) \o extract_tfidf_keywords(fit),
              MaxEnhancedInterests)

\* analyze_persona_enhanced: the analyses it may return. fits are the outcomes
\* of the two TF-IDF fits (of the combined text, of the job). No step of the
\* try block raises for strings, each helper catching its own exceptions, so
\* the call of analyze_persona in the except clause is never reached.
analyze_persona_enhanced(env, fits, persona, job_to_be_done) ==
    {[persona |-> persona,
      job_to_be_done |-> job_to_be_done,
      expertise_areas |-> extract_expertise_areas_enhanced(env, persona),
      key_interests |-> key_interests,
      priority_keywords |-> priority_keywords] :
        key_interests \in extract_key_interests_enhanced(fits.job, job_to_be_done),
        priority_keywords \in
            extract_priority_keywords_enhanced(env, fits.combined, persona,
                                               job_to_be_done)}

\* -------------------------------------------------------- semantic factor
\* the prefixes of section_text the two scorers read
SemanticPrefix == 500

FallbackPrefix == 300

\* _simple_overlap_score
simple_overlap_score(section, persona_analysis) ==
    LET context_words ==
            WordSet(Lower(persona_analysis.persona \o <<" ">>
                          \o persona_analysis.job_to_be_done))
        section_words ==
            WordSet(Lower(section.section_title \o <<" ">>
                          \o Slice(section.section_text, 0, FallbackPrefix)))
    IN  Jaccard(context_words, section_words)

\* _fallback_semantic_score: fuzz.partial_ratio / 100, the word overlap when
\* fuzzywuzzy cannot be imported, 0.3 when the ratio raises
fallback_semantic_score(env, section, persona_analysis) ==
    IF env.fuzz = "missing" THEN simple_overlap_score(section, persona_analysis)
    ELSE IF env.fuzz = "raises" THEN Tenths(3)
    ELSE Frac(env.ratio, 100)

\* a faulty variant of _calculate_semantic_similarity_score: a similarity over
\* 0.7 is returned as it is
calculate_semantic_similarity_unboosted(env, section, persona_analysis) ==
    LET context == persona_analysis.persona \o <<" ">> \o persona_analysis.job_to_be_done
        section_content ==
            IF Len(section.section_text) > 0
            THEN section.section_title \o <<" ">>
                 \o Slice(section.section_text, 0, SemanticPrefix)
            ELSE section.section_title
    IN  With(compute_similarity(env, context, section_content), LAMBDA got :
            IF got.exc THEN fallback_semantic_score(env, section, persona_analysis)
            ELSE got.val)

\* _calculate_semantic_similarity_score
calculate_semantic_similarity_score(env, section, persona_analysis) ==
    LET context == persona_analysis.persona \o <<" ">> \o persona_analysis.job_to_be_done
        section_content ==
            IF Len(section.section_text) > 0
            THEN section.section_title \o <<" ">>
                 \o Slice(section.section_text, 0, SemanticPrefix)
            ELSE section.section_title
    IN  With(compute_similarity(env, context, section_content), LAMBDA got :
            IF got.exc THEN fallback_semantic_score(env, section, persona_analysis)
            ELSE With(got.val, LAMBDA similarity :
                     IF FracLT(Tenths(7), similarity)
                     THEN FracMin1(FracMul(similarity, <<12, 10>>))
                     ELSE similarity))

\* "sum(factors[factor] * self.ranking_weights[factor] for factor in factors)"
RECURSIVE WeightedSum(_, _)
WeightedSum(factors, k) ==
    IF k > Len(FactorNames) THEN <<0, 1>>
    ELSE FracAdd(FracMul(factors[FactorNames[k]],
                         Frac(ranking_weights[FactorNames[k]], 100)),
                 WeightedSum(factors, k + 1))

\* _calculate_relevance_score: (total_score, factors)
calculate_relevance_score(env, section, persona_analysis) ==
    With(calculate_keyword_match_score(section, persona_analysis), LAMBDA kw :
        IF kw.exc THEN Raised
        ELSE With([keyword_match |-> kw.val,
                   semantic_similarity |->
                       calculate_semantic_similarity_score(env, section, persona_analysis),
                   section_type_importance |->
                       calculate_section_type_score(section, persona_analysis),
                   content_length |-> calculate_content_length_score(section),
                   position_bias |-> calculate_position_bias_score(section),
                   title_relevance |->
                       calculate_title_relevance_score(section, persona_analysis)],
                  LAMBDA factors :
                 Ok([total_score |-> WeightedSum(factors, 1), factors |-> factors])))

\* a faulty variant of the RankedSection constructor call: the rank is written
\* at creation, from the place of the section in the input
NewRankedSectionNumbered(k, scored) ==
    [section |-> k,
     relevance_score |-> scored.total_score,
     ranking_factors |-> scored.factors,
     importance_rank |-> k]

\* "RankedSection(section=section, relevance_score=relevance_score,
\* ranking_factors=factors, importance_rank=0)" for section k of the input
NewRankedSection(k, scored) ==
    [section |-> k,
     relevance_score |-> scored.total_score,
     ranking_factors |-> scored.factors,
     importance_rank |-> 0]

\* the loop of rank_sections from section k on: a section whose scoring raises
\* is skipped; a RankedSection holds its section by reference (its index)
RECURSIVE ScoreFrom(_, _, _, _)
ScoreFrom(env, sections, persona_analysis, k) ==
    IF k > Len(sections) THEN <<>>
    ELSE With(calculate_relevance_score(env, sections[k], persona_analysis), LAMBDA r :
             (IF r.exc THEN <<>>
              ELSE <<[section |-> k,
                      relevance_score |-> r.val.total_score,
                      ranking_factors |-> r.val.factors,
                      importance_rank |-> 0]>>)
             \o ScoreFrom(env, sections, persona_analysis, k + 1))

\* a faulty variant of the insertion: x goes before its equals, which makes the
\* sort unstable
RECURSIVE InsertBeforeEquals(_, _)
InsertBeforeEquals(sorted, x) ==
    IF sorted = <<>> THEN <<x>>
    ELSE IF FracLT(x.relevance_score, Head(sorted).relevance_score)
         THEN <<Head(sorted)>> \o InsertBeforeEquals(Tail(sorted), x)
    ELSE <<x>> \o sorted

\* the insertion of x into a list sorted by falling score, after its equals
RECURSIVE InsertByScore(_, _)
InsertByScore(sorted, x) ==
    IF sorted = <<>> THEN <<x>>
    ELSE IF FracLE(x.relevance_score, Head(sorted).relevance_score)
         THEN <<Head(sorted)>> \o InsertByScore(Tail(sorted), x)
    ELSE <<x>> \o sorted

\* a faulty variant of the sort: the list is left in input order
Unsorted(ranked) == ranked

\* ranked_sections.sort(key=lambda x: x.relevance_score, reverse=True): stable
RECURSIVE SortByScore(_)
SortByScore(ranked) ==
    IF ranked = <<>> THEN <<>>
    ELSE InsertByScore(SortByScore(SubSeq(ranked, 1, Len(ranked) - 1)),
                       ranked[Len(ranked)])

\* a faulty variant of the rank assignment: enumerate(ranked_sections) from 0
AssignRanksFromZero(ranked) ==
    [i \in 1..Len(ranked) |-> [ranked[i] EXCEPT !.importance_rank = i - 1]]

\* "for i, ranked_section in enumerate(ranked_sections, 1)"
AssignRanks(ranked) ==
    [i \in 1..Len(ranked) |-> [ranked[i] EXCEPT !.importance_rank = i]]

\* rank_sections; the closing log line reads ranked_sections[0], which raises
\* IndexError on an empty list
rank_sections(env, sections, persona_analysis) ==
    With(AssignRanks(SortByScore(ScoreFrom(env, sections, persona_analysis, 1))),
         LAMBDA ranked_sections :
             IF ranked_sections = <<>> THEN Raised ELSE Ok(ranked_sections))

\* -------------------------------------------------------- OutputFormatter

\* "top_sections = ranked_sections[:5]"
TopSections == 5

\* max_length of _generate_refined_text
MaxRefinedLength == 1000

\* a sentence is cut only once its stripped length exceeds this
MinSentenceLength == 20

\* the sentences of _generate_refined_text from offset p on: a sentence ends at
\* the first of . ! ? that makes its stripped length exceed MinSentenceLength
RECURSIVE SentencesFrom(_, _)
SentencesFrom(t, p) ==
    LET cuts == {q \in (p + 1)..Len(t) :
                    /\ t[q] \in {".", "!", "?"}
                    /\ Len(Strip(Slice(t, p, q))) > MinSentenceLength}
        q == CHOOSE c \in cuts : \A d \in cuts : c <= d
    IN  IF p >= Len(t) THEN <<>>
        ELSE IF cuts = {}
             THEN (IF Strip(Slice(t, p, Len(t))) = <<>> THEN <<>>
                   ELSE <<Strip(Slice(t, p, Len(t)))>>)
        ELSE <<Strip(Slice(t, p, q))>> \o SentencesFrom(t, q)

\* "refined_text += sentence + ' '" while the length limit allows it
RECURSIVE BuildRefined(_, _)
BuildRefined(refined_text, sentences) ==
    IF sentences = <<>> THEN refined_text
    ELSE IF Len(refined_text) + Len(Head(sentences)) + 1 <= MaxRefinedLength
         THEN BuildRefined(refined_text \o Head(sentences) \o <<" ">>, Tail(sentences))
    ELSE refined_text

\* _generate_refined_text
generate_refined_text(original_text) ==
    IF Len(original_text) <= MaxRefinedLength THEN Strip(original_text)
    ELSE Strip(BuildRefined(<<>>, SentencesFrom(original_text, 0)))

\* a faulty variant of _generate_extracted_sections: every ranked section is
\* listed
generate_extracted_sections_untruncated(sections, ranked_sections) ==
    [i \in 1..Len(ranked_sections) |->
       LET section == sections[ranked_sections[i].section]
       IN  [document |-> section.document_name,
            section_title |-> section.section_title,
            importance_rank |-> ranked_sections[i].importance_rank,
            page_number |-> section.page_number]]

\* _generate_extracted_sections; sections is the list the ranked sections refer to
generate_extracted_sections(sections, ranked_sections) ==
    LET top_sections == Slice(ranked_sections, 0, TopSections)
    IN  [i \in 1..Len(top_sections) |->
           LET section == sections[top_sections[i].section]
           IN  [document |-> section.document_name,
                section_title |-> section.section_title,
                importance_rank |-> top_sections[i].importance_rank,
                page_number |-> section.page_number]]

\* _generate_subsection_analysis
generate_subsection_analysis(sections, top_ranked_sections) ==
    LET top_sections == Slice(top_ranked_sections, 0, TopSections)
    IN  [i \in 1..Len(top_sections) |->
           LET section == sections[top_sections[i].section]
           IN  [document |-> section.document_name,
                refined_text |-> generate_refined_text(section.section_text),
                page_number |-> section.page_number]]

\* format_output, without the metadata block
format_output(sections, ranked_sections) ==
    [extracted_sections |-> generate_extracted_sections(sections, ranked_sections),
     subsection_analysis |-> generate_subsection_analysis(sections, ranked_sections)]

\* ------------------------------------------- SectionExtractor.extract_sections

\* a faulty variant of the loop: the first document whose extraction raises ends
\* it, and the documents after it are not read
RECURSIVE extract_sections_aborting(_)
extract_sections_aborting(docs) ==
    IF docs = <<>> THEN <<>>
    ELSE With(extract_sections_from_document(Head(docs)), LAMBDA doc_sections :
             IF doc_sections.exc THEN <<>>
             ELSE doc_sections.val \o extract_sections_aborting(Tail(docs)))

\* the loop of extract_sections: a document whose extraction raises adds nothing
RECURSIVE extract_sections(_)
extract_sections(docs) ==
    IF docs = <<>> THEN <<>>
    ELSE With(extract_sections_from_document(Head(docs)), LAMBDA doc_sections :
             (IF doc_sections.exc THEN <<>> ELSE doc_sections.val)
             \o extract_sections(Tail(docs)))

\* whether _extract_sections_from_document(doc) calls _extract_from_pages
page_pass_runs(doc) ==
    With(extract_from_full_text(doc), LAMBDA full :
        ~full.exc /\ page_pass_needed(full.val))

\* ------------------------------------------------------------------ inputs

Body ==
    <<"T","h","i","s"," ","i","s"," ","a"," ","t","e","s","t"," ","o","f"," ","t","h",
      "e"," ","s","y","s","t","e","m"," ","w","i","t","h"," ","e","n","o","u","g",
      "h"," ","c","h","a","r","a","c","t","e","r","s"," ","i","n"," ","i","t",".">>

H_introduction ==
    <<"1","."," ","I","n","t","r","o","d","u","c","t","i","o","n","\n">>

H_methods ==
    <<"2","."," ","M","e","t","h","o","d","s","\n">>

H_abstract ==
    <<"A","b","s","t","r","a","c","t","\n">>

H_results ==
    <<"R","e","s","u","l","t","s","\n">>

ShortBody ==
    <<"S","h","o","r","t",".">>

\* the file names d1.pdf, d2.pdf, ...
Ext_pdf ==
    <<".","p","d","f">>


DocName(i) == <<"d">> \o IntToText(i) \o Ext_pdf

NL == <<"\n">>

\* two numbered headers, each followed by a body of more than 50 characters
PageNumbered == H_introduction \o Body \o NL \o H_methods \o Body

\* two numbered headers, the second followed by a body that is too short, on a
\* page of more than 200 characters
PageShortTail ==
    H_introduction \o Body \o <<" ">> \o Body \o <<" ">> \o Body \o <<" ">> \o Body
    \o NL \o H_methods \o ShortBody

\* more than 200 characters without any header line
PagePlain == Body \o <<" ">> \o Body \o <<" ">> \o Body \o <<" ">> \o Body

\* one canonical header line and a body
PageAbstract == H_abstract \o Body \o <<" ">> \o Body

\* one canonical header line on a page of more than 200 characters
PageResults ==
    H_results \o Body \o <<" ">> \o Body \o <<" ">> \o Body \o <<" ">> \o Body

\* the PDF files that may be given: what each page's extract_text() yields
FileLib ==
    << [name |-> <<>>, readable |-> TRUE,  pages |-> <<PageNumbered>>],
       [name |-> <<>>, readable |-> TRUE,  pages |-> <<PageShortTail>>],
       [name |-> <<>>, readable |-> TRUE,  pages |-> <<PagePlain, PageResults>>],
       [name |-> <<>>, readable |-> TRUE,  pages |-> <<PageFailure, PageAbstract>>],
       [name |-> <<>>, readable |-> TRUE,  pages |-> <<>>],
       [name |-> <<>>, readable |-> TRUE,  pages |-> <<None>>],
       [name |-> <<>>, readable |-> TRUE,  pages |-> <<ShortBody>>],
       [name |-> <<>>, readable |-> FALSE, pages |-> <<>>] >>

\* the file of FileLib entry c under the name of list position i
FileAt(i, c) == [FileLib[c] EXCEPT !.name = DocName(i)]

\* the most documents given to one analysis
MaxDocuments == 2

\* the lists of at most n elements drawn from 1..k
Choices(n, k) == UNION {[1..m -> 1..k] : m \in 0..n}

\* the ProcessedDocument contents a caller may hand to extract_sections: what
\* process_documents builds from the readable files, and documents built by
\* hand whose page text is None
DocLib ==
    process_documents(FileLib)
        \o << [filename |-> <<>>, text_content |-> PageNumbered,
               page_contents |-> <<[page_number |-> 1, text |-> None]>>],
              [filename |-> <<>>, text_content |-> PageNumbered,
               page_contents |-> <<[page_number |-> 1, text |-> PageNumbered],
                                   [page_number |-> 2, text |-> None]>>],
              [filename |-> <<>>, text_content |-> PagePlain,
               page_contents |-> <<[page_number |-> 1, text |-> PagePlain],
                                   [page_number |-> 2, text |-> None]>>] >>

\* the document of DocLib entry c under the name of list position i
DocAt(i, c) == [DocLib[c] EXCEPT !.filename = DocName(i)]

\* the persona and job strings that may be given
PersonaResearcher ==
    <<"P","h","D"," ","R","e","s","e","a","r","c","h","e","r">>

JobReview ==
    <<"R","e","v","i","e","w"," ","t","h","e"," ","i","n","t","r","o","d","u","c","t",
      "i","o","n"," ","a","n","d"," ","m","e","t","h","o","d","s">>

PersonaAnalyst ==
    <<"I","n","v","e","s","t","m","e","n","t"," ","A","n","a","l","y","s","t">>

JobAnalyze ==
    <<"A","n","a","l","y","z","e"," ","t","h","e"," ","s","y","s","t","e","m"," ","t",
      "e","s","t",","," ","w","i","t","h"," ","d","a","t","a">>

JobEcho ==
    <<"2","."," ","M","e","t","h","o","d","s"," ","T","h","i","s"," ","i","s"," ","a",
      " ","t","e","s","t"," ","o","f"," ","t","h","e"," ","s","y","s","t","e","m",
      " ","w","i","t","h"," ","e","n","o","u","g","h"," ","c","h","a","r","a","c",
      "t","e","r","s"," ","i","n"," ","i","t",".">>

\* the similarity backends a ranker may run with: the ModelManager of this
\* repository (word overlap), or an injected one that raises, with fuzzywuzzy
\* missing, raising, or returning the partial ratio given
LexicalEnv == [backend |-> "lexical", fuzz |-> "missing", ratio |-> 0]

\* the (persona, job, backend) combinations a ranking may run with
ScenarioLib ==
    << [persona |-> PersonaResearcher, job |-> JobReview, env |-> LexicalEnv],
       [persona |-> <<>>, job |-> <<>>, env |-> LexicalEnv],
       [persona |-> <<>>, job |-> JobEcho, env |-> LexicalEnv],
       [persona |-> PersonaAnalyst, job |-> JobAnalyze,
        env |-> [backend |-> "raises", fuzz |-> "missing", ratio |-> 0]],
       [persona |-> PersonaAnalyst, job |-> JobAnalyze,
        env |-> [backend |-> "raises", fuzz |-> "ok", ratio |-> 100]],
       [persona |-> PersonaResearcher, job |-> JobReview,
        env |-> [backend |-> "raises", fuzz |-> "raises", ratio |-> 0]] >>

\* the ExtractedSection objects a caller may hand to rank_sections: sections the
\* extractor returns (the third repeats the first under another document name),
\* one of them moved to a late page, and one whose section_text is None
SectionLib ==
    With(extract_sections(<<DocAt(1, 1), DocAt(2, 1), DocAt(3, 3)>>), LAMBDA from_docs :
        << from_docs[1], from_docs[2], from_docs[3], from_docs[5],
           [from_docs[6] EXCEPT !.page_number = 11],
           [from_docs[1] EXCEPT !.section_text = None] >>)

\* the most sections given to one direct call of rank_sections
MaxSections == 3

\* the pieces the strings given to the similarity functions are made of: words
\* in either case, with and without whitespace around them, and bare whitespace
TokenLib ==
    << <<"D","a","t","a"," ">>,
       <<"d","a","t","a">>,
       <<" ","t","e","s","t">>,
       <<"\n","\t">>,
       <<"T","e","s","t","\n">> >>

\* the most pieces in one such string
MaxTokens == 2

\* the strings of at most MaxTokens pieces; the empty string is one of them
TextLib ==
    {Concat([i \in 1..Len(cs) |-> TokenLib[cs[i]]]) : cs \in Choices(MaxTokens, Len(TokenLib))}

\* a text of two numbered sections, the second of them too short to be kept
ScenarioText ==
    <<"1","."," ","I","n","t","r","o","d","u","c","t","i","o","n","\n","T","h","i","s",
      " ","i","s"," ","a"," ","t","e","s","t"," ","o","f"," ","t","h","e"," ","s","y",
      "s","t","e","m"," ","w","i","t","h"," ","e","n","o","u","g","h"," ","c","h","a",
      "r","a","c","t","e","r","s"," ","t","o"," ","p","a","s","s"," ","t","h","e"," ",
      "m","i","n","i","m","u","m"," ","l","e","n","g","t","h"," ","t","h","r","e","s",
      "h","o","l","d"," ","f","o","r"," ","s","e","c","t","i","o","n"," ","b","o","d",
      "i","e","s"," ","i","n"," ","t","h","i","s"," ","s","u","i","t","e",".","\n","2",
      "."," ","M","e","t","h","o","d","s","\n","S","h","o","r","t",".">>

\* a canonical header between two numbered headers, each followed by a body
PageMixed == H_introduction \o Body \o NL \o H_results \o Body \o NL \o H_methods \o Body

\* a numbered header and a canonical header, each followed by a body
PageMixedTail == H_introduction \o Body \o NL \o H_results \o Body

\* the ProcessedDocument that process_documents builds from a one-page file
OnePageDoc(page_text) ==
    process_single_document(
        [name |-> DocName(1), readable |-> TRUE, pages |-> <<page_text>>]).val

\* the documents given to the direct calls of _extract_from_full_text
FullTextDocs ==
    << OnePageDoc(ScenarioText), OnePageDoc(PageAbstract), OnePageDoc(PageMixed),
       OnePageDoc(PageMixedTail), OnePageDoc(PageNumbered), OnePageDoc(PagePlain),
       DocAt(1, 10) >>

FullTextCalls ==
    [fn : {"extract_from_full_text"}, doc : ToSet(FullTextDocs)]

\* a page of more than 300 characters whose last line names the analyst
\* persona and job
LongPage ==
    PagePlain \o <<" ">> \o Body \o NL \o PersonaAnalyst \o <<" ">> \o JobAnalyze

\* a job that shares all its words but one with JobReview
JobReviewData ==
    <<"R","e","v","i","e","w"," ","t","h","e"," ","i","n","t","r","o","d","u","c","t",
      "i","o","n"," ","a","n","d"," ","d","a","t","a">>

\* sections that repeat the words of the researcher persona and job: all of
\* them, all in the title with an empty body, and all but one
EchoSections ==
    { [SectionLib[1] EXCEPT !.section_title = PersonaResearcher,
                            !.section_text = JobReview],
      [SectionLib[1] EXCEPT !.section_title = PersonaResearcher \o <<" ">> \o JobReview,
                            !.section_text = <<>>],
      [SectionLib[1] EXCEPT !.section_title = PersonaResearcher,
                            !.section_text = JobReviewData] }

\* the direct calls of _calculate_semantic_similarity_score: a section of the
\* library, the section of the long page or a section that repeats the
\* persona and job, under one of the scenarios
SemanticCalls ==
    [fn : {"calculate_semantic_similarity_score"},
     section : {SectionLib[i] : i \in 1..5}
                   \cup ToSet(extract_sections(<<OnePageDoc(LongPage)>>))
                   \cup EchoSections,
     scenario : 1..Len(ScenarioLib)]

\* the direct calls of the two similarity functions of ModelManager
SimilarityCalls ==
    [fn : {"fallback_similarity_score", "compute_similarity"},
     text1 : TextLib, text2 : TextLib]

\* the direct calls of analyze_persona: any two of the texts and of the
\* persona and job strings
\* a persona that names two roles of expertise_keywords
PersonaTwoRoles ==
    <<"A","n","a","l","y","s","t",","," ","R","e","s","e","a","r","c","h","e","r">>

\* a job whose words end in punctuation
JobPunctuated ==
    <<"W","i","t","h",","," ","t","h","e",","," ","d","a","t","a",".">>

PersonaStrings ==
    TextLib \cup {PersonaResearcher, PersonaAnalyst, JobReview, JobAnalyze, JobEcho,
                  PersonaTwoRoles, JobPunctuated}

PersonaCalls ==
    [fn : {"analyze_persona"}, persona : PersonaStrings, job : PersonaStrings]

\* what a TF-IDF fit may do: raise, find no keyword, find one
TfidfFits == {Raised, Ok(<<>>), Ok(<<J_review>>)}

\* the direct calls of analyze_persona_enhanced, of an analyzer with the
\* ModelManager of this repository or with an injected one that raises
EnhancedCalls ==
    [fn : {"analyze_persona_enhanced"},
     persona : {<<>>, PersonaResearcher, PersonaAnalyst},
     job : {<<>>, JobReview, JobAnalyze},
     backend : {"lexical", "raises"},
     fits : [combined : TfidfFits, job : TfidfFits]]

\* a page of more than 200 characters of which fewer than 200 are left when
\* the blanks at its end are stripped
PagePadded ==
    Body \o <<" ">> \o Body \o <<" ">> \o Body \o [i \in 1..30 |-> " "]

\* a page that starts with an empty line and an indented short line
PageTitled ==
    <<"\n", " ", " ", "O", "v", "e", "r", "v", "i", "e", "w", " ", "\n">> \o PagePlain

\* a page of five lines of more than 100 characters and a short sixth line
PageLongLines ==
    With(Body \o <<" ">> \o Body \o NL, LAMBDA long :
        long \o long \o long \o long \o long \o <<"S", "u", "m", "m", "a", "r", "y">>)

\* the ProcessedDocument that process_single_document builds from pages
PagesDoc(pages) ==
    process_single_document([name |-> DocName(1), readable |-> TRUE,
                             pages |-> pages]).val

\* the direct calls of _extract_from_pages and _extract_sections_from_document
PagePassDocs ==
    << PagesDoc(<<PagePlain>>), PagesDoc(<<PagePadded>>),
       PagesDoc(<<PageTitled, ShortBody, PageLongLines>>),
       PagesDoc(<<PageTitled, PageTitled>>), PagesDoc(<<PageNumbered>>),
       PagesDoc(<<PageShortTail>>), PagesDoc(<<PageAbstract, PagePlain>>),
       PagesDoc(<<>>), DocAt(1, 10) >>

PagePassCalls ==
    [fn : {"extract_from_pages", "extract_sections_from_document"},
     doc : ToSet(PagePassDocs)]

\* pages whose titles clash: a numbered header "Step 2", a page that starts
\* with the line "Step 2", one that starts with " step 2 ", and a page with
\* the numbered headers "Step 2" and "STEP 2"
StepLead == <<"1", ".", " ", "S", "t", "e", "p", " ", "2", ".", " ">>

PageStepHeader == StepLead \o PagePlain

PageStepLine == <<"S", "t", "e", "p", " ", "2", "\n">> \o PagePlain

PageStepLower == <<" ", "s", "t", "e", "p", " ", "2", " ", "\n">> \o PagePlain

PageStepTwice ==
    StepLead \o Body \o NL
        \o <<"2", ".", " ", "S", "T", "E", "P", " ", "2", ".", " ">> \o Body

\* the documents whose candidate sections repeat a title
DedupDocs ==
    << PagesDoc(<<PageStepHeader, PageStepLine>>), PagesDoc(<<PageStepTwice>>),
       PagesDoc(<<PageStepHeader, PageStepLine, PageStepLower>>),
       PagesDoc(<<PageStepLine, PageStepHeader>>),
       PagesDoc(<<PageTitled, PageTitled>>), PagesDoc(<<PageNumbered>>),
       PagesDoc(<<PageStepLine, PageStepHeader, PageTitled>>) >>

\* the combined candidate list of _extract_sections_from_document: the
\* structural sections, then the page sections when the page pass runs
CombinedCandidates(doc) ==
    With(extract_from_full_text(doc).val, LAMBDA full :
        full \o (IF page_pass_needed(full) THEN extract_from_pages(doc).val ELSE <<>>))

\* the direct calls of _remove_duplicate_sections, and of
\* _extract_sections_from_document on the same documents
DedupCalls ==
    {[fn |-> "remove_duplicate_sections", doc |-> DedupDocs[d],
      sections |-> CombinedCandidates(DedupDocs[d])] : d \in 1..Len(DedupDocs)}
    \cup [fn : {"extract_sections_from_document"}, doc : ToSet(DedupDocs)]

\* the documents given to the direct calls of _estimate_page_number: built by
\* process_single_document from files of which a page cannot be extracted, so
\* that page numbers are skipped, and built by hand with a text_content that
\* is longer than the pages
EstimateDocs ==
    << PagesDoc(<<PageNumbered, PageFailure, ShortBody, PageNumbered>>),
       PagesDoc(<<PageFailure, PageNumbered>>),
       [filename |-> DocName(1), text_content |-> PageNumbered,
        page_contents |-> <<[page_number |-> 1, text |-> ShortBody]>>],
       [filename |-> DocName(1), text_content |-> PageNumbered,
        page_contents |-> <<[page_number |-> 2, text |-> ShortBody]>>] >>

\* the direct calls of _estimate_page_number, at the offset of a header match
\* of the document, and of _extract_from_full_text on the same documents
EstimateCalls ==
    UNION {{[fn |-> "estimate_page_number", doc |-> EstimateDocs[d],
             position |-> header_matches(EstimateDocs[d])[m].start] :
               m \in 1..Len(header_matches(EstimateDocs[d]))} :
           d \in 1..Len(EstimateDocs)}
    \cup [fn : {"extract_from_full_text"}, doc : ToSet(EstimateDocs)]

\* texts that open with a line in mixed case, with two lines in upper case,
\* with two lines in mixed case, and with one line in upper case, each before a
\* body and a numbered section
CapsTail == NL \o Body \o NL \o <<"1", ".", " ">> \o H_results \o Body

PageMixedCaseLine == <<"O", "v", "e", "r", "v", "i", "e", "w">> \o CapsTail

PageTwoCapsLines ==
    <<"M", "A", "I", "N", "\n", "F", "I", "N", "D", "I", "N", "G", "S">> \o CapsTail

PageTwoMixedLines ==
    <<"O", "v", "e", "r", "v", "i", "e", "w", "\n", "o", "f", " ", "i", "t">> \o CapsTail

PageCapsLine == <<"O", "V", "E", "R", "V", "I", "E", "W">> \o CapsTail

CapsCalls ==
    [fn : {"extract_from_full_text"},
     doc : {OnePageDoc(PageMixedCaseLine), OnePageDoc(PageTwoCapsLines),
            OnePageDoc(PageTwoMixedLines), OnePageDoc(PageCapsLine)}]

\* the most sections in a ranked list given to format_output directly
MaxRanked == 7

\* n sections of the library that have a text, the i-th put on page i
SectionsOnPages(n) ==
    <<>> \o [i \in 1..n |-> [SectionLib[((i - 1) % 5) + 1] EXCEPT !.page_number = i]]

\* the direct calls of format_output: the ranked list that rank_sections
\* returns for the sections under one of the scenarios, and the empty list
FormatCalls ==
    {With(rank_sections(ScenarioLib[k].env, SectionsOnPages(n),
                        analyze_persona(ScenarioLib[k].persona, ScenarioLib[k].job)),
          LAMBDA r : [fn |-> "format_output",
                      sections |-> SectionsOnPages(n),
                      ranked_sections |-> IF r.exc THEN <<>> ELSE r.val]) :
        n \in 0..MaxRanked, k \in 1..Len(ScenarioLib)}

\* the words the jobs of the direct calls of _calculate_section_type_score are
\* made of
JobWordLib ==
    << <<"R","e","v","i","e","w","s">>,
       <<"a","n","a","l","y","z","e">>,
       <<"A","n","a","l","y","s","i","s">>,
       <<"E","x","a","m">>,
       <<"s","t","u","d","y">>,
       <<"S","u","m","m","a","r","i","z","e">> >>

\* the most words in one such job
MaxJobWords == 2

\* the direct calls of _calculate_section_type_score: a section of each type of
\* a profile or of another type, and a job of at most MaxJobWords words
SectionTypeCalls ==
    [fn : {"calculate_section_type_score"},
     section_type : ToSet(TypeOrder) \cup {T_content, W_background, W_methodology},
     job : {Concat([i \in 1..Len(cs) |->
                      (IF i = 1 THEN <<>> ELSE <<" ">>) \o JobWordLib[cs[i]]]) :
               cs \in Choices(MaxJobWords, Len(JobWordLib))}]

\* the direct calls that are followed
Calls ==
    SimilarityCalls \cup FullTextCalls \cup SemanticCalls \cup PersonaCalls
        \cup EnhancedCalls \cup FormatCalls \cup PagePassCalls \cup DedupCalls
        \cup EstimateCalls \cup CapsCalls \cup SectionTypeCalls

\* the repeated calls of _extract_sections_from_document that are followed
MaxRuns == 2

\* ------------------------------------------------------------ state machine

VARIABLES
    pc,                  \* how far the call has come
    documents,           \* analyze: the PDF files given
    persona,             \* analyze: the persona string given
    job_to_be_done,      \* analyze: the job string given
    env,                 \* the similarity backend of the ranker
    processed_docs,      \* the ProcessedDocument list
    persona_analysis,    \* the PersonaAnalysis
    extracted_sections,  \* the ExtractedSection list
    page_pass_log,       \* per document: whether _extract_from_pages was called
    ranked_sections,     \* the RankedSection list rank_sections returned
    output,              \* the dictionary format_output returned
    seg_runs,            \* per document: the direct segmentations so far
    seg_first,           \* per document: what its first segmentation returned
    seg_last,            \* per document: what its latest segmentation returned
    call,                \* a direct call of one function: its name and arguments,
                         \* or the running loop index of a call followed by statement
    returned             \* what that call returned or raised

vars == <<pc, documents, persona, job_to_be_done, env, processed_docs,
          persona_analysis, extracted_sections, page_pass_log, ranked_sections,
          output, seg_runs, seg_first, seg_last, call, returned>>

\* no direct call is under way
NoCall == [fn |-> "none"]

NoOutput == [extracted_sections |-> <<>>, subsection_analysis |-> <<>>]

NoAnalysis == analyze_persona(<<>>, <<>>)

\* DocumentAnalyst.analyze is called with a list of files, a persona and a job
Init ==
    /\ pc = "start"
    /\ \E cs \in Choices(MaxDocuments, Len(FileLib)) :
          documents = [i \in 1..Len(cs) |-> FileAt(i, cs[i])]
    /\ \E k \in 1..Len(ScenarioLib) :
          /\ persona = ScenarioLib[k].persona
          /\ job_to_be_done = ScenarioLib[k].job
          /\ ScenarioLib[k].env = LexicalEnv
    /\ env = LexicalEnv
    /\ processed_docs = <<>>
    /\ persona_analysis = NoAnalysis
    /\ extracted_sections = <<>>
    /\ page_pass_log = <<>>
    /\ ranked_sections = <<>>
    /\ output = NoOutput
    /\ seg_runs = <<>>
    /\ seg_first = <<>>
    /\ seg_last = <<>>
    /\ call = NoCall
    /\ returned = Raised

\* analyze, step 1: process_documents
ProcessDocuments ==
    /\ pc = "start"
    /\ processed_docs' = process_documents(documents)
    /\ pc' = "processed"
    /\ UNCHANGED <<documents, persona, job_to_be_done, env, persona_analysis,
                   extracted_sections, page_pass_log, ranked_sections, output,
                   seg_runs, seg_first, seg_last, call, returned>>

\* analyze, step 2: analyze_persona
AnalyzePersona ==
    /\ pc = "processed"
    /\ persona_analysis' = analyze_persona(persona, job_to_be_done)
    /\ pc' = "analyzed"
    /\ UNCHANGED <<documents, persona, job_to_be_done, env, processed_docs,
                   extracted_sections, page_pass_log, ranked_sections, output,
                   seg_runs, seg_first, seg_last, call, returned>>

\* analyze, step 3, and the direct call: extract_sections
ExtractSections ==
    /\ pc = "analyzed"
    /\ extracted_sections' = extract_sections(processed_docs)
    /\ page_pass_log' = [i \in 1..Len(processed_docs) |-> page_pass_runs(processed_docs[i])]
    /\ pc' = "extracted"
    /\ UNCHANGED <<documents, persona, job_to_be_done, env, processed_docs,
                   persona_analysis, ranked_sections, output,
                   seg_runs, seg_first, seg_last, call, returned>>

\* analyze, step 4, and the direct call: rank_sections; what it raises leaves
\* analyze through its "except ...: raise"
RankSections ==
    /\ pc = "extracted"
    /\ LET r == rank_sections(env, extracted_sections, persona_analysis)
       IN  /\ ranked_sections' = r.val
           /\ pc' = IF r.exc THEN "raised" ELSE "ranked"
    /\ UNCHANGED <<documents, persona, job_to_be_done, env, processed_docs,
                   persona_analysis, extracted_sections, page_pass_log, output,
                   seg_runs, seg_first, seg_last, call, returned>>

\* analyze, step 5: format_output, and the return of the result
FormatOutput ==
    /\ pc = "ranked"
    /\ output' = format_output(extracted_sections, ranked_sections)
    /\ pc' = "done"
    /\ UNCHANGED <<documents, persona, job_to_be_done, env, processed_docs,
                   persona_analysis, extracted_sections, page_pass_log,
                   ranked_sections, seg_runs, seg_first, seg_last, call, returned>>

Next ==
    \/ ProcessDocuments
    \/ AnalyzePersona
    \/ ExtractSections
    \/ RankSections
    \/ FormatOutput

Spec == Init /\ [][Next]_vars

\* ---- SectionExtractor called directly on a list of ProcessedDocument objects

InitSeg ==
    /\ pc = "analyzed"
    /\ \E cs \in Choices(MaxDocuments, Len(DocLib)) :
          /\ processed_docs = [i \in 1..Len(cs) |-> DocAt(i, cs[i])]
          /\ seg_runs = [i \in 1..Len(cs) |-> 0]
          /\ seg_first = [i \in 1..Len(cs) |-> Raised]
          /\ seg_last = [i \in 1..Len(cs) |-> Raised]
    /\ documents = <<>>
    /\ persona = <<>>
    /\ job_to_be_done = <<>>
    /\ env = LexicalEnv
    /\ persona_analysis = NoAnalysis
    /\ extracted_sections = <<>>
    /\ page_pass_log = <<>>
    /\ ranked_sections = <<>>
    /\ output = NoOutput
    /\ call = NoCall
    /\ returned = Raised

\* a faulty variant of the call: it consumes the pages of the document it reads
SegmentDocumentInPlace(i) ==
    /\ seg_runs[i] < MaxRuns
    /\ \A j \in 1..Len(processed_docs) : j # i => seg_runs[j] = 0
    /\ LET r == extract_sections_from_document(processed_docs[i])
       IN  /\ seg_last' = [seg_last EXCEPT ![i] = r]
           /\ seg_first' = IF seg_runs[i] = 0 THEN [seg_first EXCEPT ![i] = r]
                           ELSE seg_first
    /\ seg_runs' = [seg_runs EXCEPT ![i] = @ + 1]
    /\ processed_docs' = [processed_docs EXCEPT ![i].page_contents = <<>>,
                                                ![i].text_content = <<>>]
    /\ UNCHANGED <<pc, documents, persona, job_to_be_done, env,
                   persona_analysis, extracted_sections, page_pass_log,
                   ranked_sections, output, call, returned>>

\* a direct call of _extract_sections_from_document on document i; the call
\* assigns to nothing but its own locals.  One document's repeated calls are
\* followed at a time.
SegmentDocument(i) ==
    /\ seg_runs[i] < MaxRuns
    /\ \A j \in 1..Len(processed_docs) : j # i => seg_runs[j] = 0
    /\ LET r == extract_sections_from_document(processed_docs[i])
       IN  /\ seg_last' = [seg_last EXCEPT ![i] = r]
           /\ seg_first' = IF seg_runs[i] = 0 THEN [seg_first EXCEPT ![i] = r]
                           ELSE seg_first
    /\ seg_runs' = [seg_runs EXCEPT ![i] = @ + 1]
    /\ UNCHANGED <<pc, documents, persona, job_to_be_done, env, processed_docs,
                   persona_analysis, extracted_sections, page_pass_log,
                   ranked_sections, output, call, returned>>

NextSeg ==
    \/ ExtractSections
    \/ \E i \in 1..Len(processed_docs) : SegmentDocument(i)

SpecSeg == InitSeg /\ [][NextSeg]_vars

\* ---- RelevanceRanker called directly on a list of ExtractedSection objects

InitRank ==
    /\ pc = "extracted"
    /\ \E cs \in Choices(MaxSections, Len(SectionLib)) :
          extracted_sections = [i \in 1..Len(cs) |-> SectionLib[cs[i]]]
    /\ \E k \in 1..Len(ScenarioLib) :
          /\ persona = ScenarioLib[k].persona
          /\ job_to_be_done = ScenarioLib[k].job
          /\ persona_analysis = analyze_persona(ScenarioLib[k].persona, ScenarioLib[k].job)
          /\ env = ScenarioLib[k].env
    /\ documents = <<>>
    /\ processed_docs = <<>>
    /\ page_pass_log = <<>>
    /\ ranked_sections = <<>>
    /\ output = NoOutput
    /\ seg_runs = <<>>
    /\ seg_first = <<>>
    /\ seg_last = <<>>
    /\ call = NoCall
    /\ returned = Raised

NextRank == RankSections

SpecRank == InitRank /\ [][NextRank]_vars

\* ---- rank_sections followed statement by statement; call.i is the index of
\* the loop that is running

InitRankSteps ==
    /\ pc = "rank_loop"
    /\ call = [fn |-> "rank_sections", i |-> 1]
    /\ \E cs \in Choices(MaxSections, Len(SectionLib)) :
          extracted_sections = [i \in 1..Len(cs) |-> SectionLib[cs[i]]]
    /\ \E k \in 1..Len(ScenarioLib) :
          /\ persona = ScenarioLib[k].persona
          /\ job_to_be_done = ScenarioLib[k].job
          /\ persona_analysis = analyze_persona(ScenarioLib[k].persona, ScenarioLib[k].job)
          /\ env = ScenarioLib[k].env
    /\ documents = <<>>
    /\ processed_docs = <<>>
    /\ page_pass_log = <<>>
    /\ ranked_sections = <<>>
    /\ output = NoOutput
    /\ seg_runs = <<>>
    /\ seg_first = <<>>
    /\ seg_last = <<>>
    /\ returned = Raised

\* one turn of "for section in sections": the section is scored and a
\* RankedSection appended; a section whose scoring raises is skipped
ScoreNextSection ==
    /\ pc = "rank_loop"
    /\ call.i <= Len(extracted_sections)
    /\ ranked_sections' =
          With(calculate_relevance_score(env, extracted_sections[call.i],
                                         persona_analysis), LAMBDA r :
              IF r.exc THEN ranked_sections
              ELSE Append(ranked_sections, NewRankedSection(call.i, r.val)))
    /\ call' = [call EXCEPT !.i = @ + 1]
    /\ UNCHANGED <<pc, documents, persona, job_to_be_done, env, processed_docs,
                   persona_analysis, extracted_sections, page_pass_log, output,
                   seg_runs, seg_first, seg_last, returned>>

\* "ranked_sections.sort(key=lambda x: x.relevance_score, reverse=True)"
SortRanked ==
    /\ pc = "rank_loop"
    /\ call.i > Len(extracted_sections)
    /\ ranked_sections' = SortByScore(ranked_sections)
    /\ pc' = "rank_assign"
    /\ call' = [call EXCEPT !.i = 1]
    /\ UNCHANGED <<documents, persona, job_to_be_done, env, processed_docs,
                   persona_analysis, extracted_sections, page_pass_log, output,
                   seg_runs, seg_first, seg_last, returned>>

\* one turn of "for i, ranked_section in enumerate(ranked_sections, 1)"
AssignNextRank ==
    /\ pc = "rank_assign"
    /\ call.i <= Len(ranked_sections)
    /\ ranked_sections' = [ranked_sections EXCEPT ![call.i].importance_rank = call.i]
    /\ call' = [call EXCEPT !.i = @ + 1]
    /\ UNCHANGED <<pc, documents, persona, job_to_be_done, env, processed_docs,
                   persona_analysis, extracted_sections, page_pass_log, output,
                   seg_runs, seg_first, seg_last, returned>>

\* the closing log line, which reads ranked_sections[0], and the return
ReturnRanked ==
    /\ pc = "rank_assign"
    /\ call.i > Len(ranked_sections)
    /\ returned' = IF ranked_sections = <<>> THEN Raised ELSE Ok(ranked_sections)
    /\ pc' = "returned"
    /\ UNCHANGED <<documents, persona, job_to_be_done, env, processed_docs,
                   persona_analysis, extracted_sections, page_pass_log,
                   ranked_sections, output, seg_runs, seg_first, seg_last, call>>

NextRankSteps ==
    \/ ScoreNextSection
    \/ SortRanked
    \/ AssignNextRank
    \/ ReturnRanked

SpecRankSteps == InitRankSteps /\ [][NextRankSteps]_vars

\* ---- single functions called directly, each with arguments of its library

InitCall ==
    /\ pc = "call"
    /\ call \in Calls
    /\ returned = Raised
    /\ env = IF "scenario" \in DOMAIN call THEN ScenarioLib[call.scenario].env
             ELSE IF "backend" \in DOMAIN call
             THEN [LexicalEnv EXCEPT !.backend = call.backend]
             ELSE LexicalEnv
    /\ documents = <<>>
    /\ persona = <<>>
    /\ job_to_be_done = <<>>
    /\ processed_docs = <<>>
    /\ persona_analysis =
          IF "scenario" \in DOMAIN call
          THEN analyze_persona(ScenarioLib[call.scenario].persona,
                               ScenarioLib[call.scenario].job)
          ELSE NoAnalysis
    /\ extracted_sections = <<>>
    /\ page_pass_log = <<>>
    /\ ranked_sections = <<>>
    /\ output = NoOutput
    /\ seg_runs = <<>>
    /\ seg_first = <<>>
    /\ seg_last = <<>>

\* ModelManager._fallback_similarity_score(text1, text2)
FallbackSimilarity ==
    /\ pc = "call"
    /\ call.fn = "fallback_similarity_score"
    /\ returned' = Ok(fallback_similarity_score(call.text1, call.text2))
    /\ pc' = "returned"
    /\ UNCHANGED <<documents, persona, job_to_be_done, env, processed_docs,
                   persona_analysis, extracted_sections, page_pass_log,
                   ranked_sections, output, seg_runs, seg_first, seg_last, call>>

\* ModelManager.compute_similarity(text1, text2)
ComputeSimilarity ==
    /\ pc = "call"
    /\ call.fn = "compute_similarity"
    /\ returned' = compute_similarity(env, call.text1, call.text2)
    /\ pc' = "returned"
    /\ UNCHANGED <<documents, persona, job_to_be_done, env, processed_docs,
                   persona_analysis, extracted_sections, page_pass_log,
                   ranked_sections, output, seg_runs, seg_first, seg_last, call>>

\* SectionExtractor._extract_from_full_text(doc)
ExtractFromFullText ==
    /\ pc = "call"
    /\ call.fn = "extract_from_full_text"
    /\ returned' = extract_from_full_text(call.doc)
    /\ pc' = "returned"
    /\ UNCHANGED <<documents, persona, job_to_be_done, env, processed_docs,
                   persona_analysis, extracted_sections, page_pass_log,
                   ranked_sections, output, seg_runs, seg_first, seg_last, call>>

\* RelevanceRanker._calculate_semantic_similarity_score(section, persona_analysis)
CalculateSemanticSimilarity ==
    /\ pc = "call"
    /\ call.fn = "calculate_semantic_similarity_score"
    /\ returned' = Ok(calculate_semantic_similarity_score(env, call.section,
                                                          persona_analysis))
    /\ pc' = "returned"
    /\ UNCHANGED <<documents, persona, job_to_be_done, env, processed_docs,
                   persona_analysis, extracted_sections, page_pass_log,
                   ranked_sections, output, seg_runs, seg_first, seg_last, call>>

\* PersonaAnalyzer.analyze_persona(persona, job_to_be_done)
AnalyzePersonaBasic ==
    /\ pc = "call"
    /\ call.fn = "analyze_persona"
    /\ returned' = Ok(analyze_persona(call.persona, call.job))
    /\ pc' = "returned"
    /\ UNCHANGED <<documents, persona, job_to_be_done, env, processed_docs,
                   persona_analysis, extracted_sections, page_pass_log,
                   ranked_sections, output, seg_runs, seg_first, seg_last, call>>

\* PersonaAnalyzer.analyze_persona_enhanced(persona, job_to_be_done)
AnalyzePersonaEnhanced ==
    /\ pc = "call"
    /\ call.fn = "analyze_persona_enhanced"
    /\ \E analysis \in analyze_persona_enhanced(env, call.fits, call.persona, call.job) :
          returned' = Ok(analysis)
    /\ pc' = "returned"
    /\ UNCHANGED <<documents, persona, job_to_be_done, env, processed_docs,
                   persona_analysis, extracted_sections, page_pass_log,
                   ranked_sections, output, seg_runs, seg_first, seg_last, call>>

\* OutputFormatter.format_output(..., ranked_sections, ...)
FormatOutputOfRanked ==
    /\ pc = "call"
    /\ call.fn = "format_output"
    /\ returned' = Ok(format_output(call.sections, call.ranked_sections))
    /\ pc' = "returned"
    /\ UNCHANGED <<documents, persona, job_to_be_done, env, processed_docs,
                   persona_analysis, extracted_sections, page_pass_log,
                   ranked_sections, output, seg_runs, seg_first, seg_last, call>>

\* SectionExtractor._extract_from_pages(doc)
ExtractFromPages ==
    /\ pc = "call"
    /\ call.fn = "extract_from_pages"
    /\ returned' = extract_from_pages(call.doc)
    /\ pc' = "returned"
    /\ UNCHANGED <<documents, persona, job_to_be_done, env, processed_docs,
                   persona_analysis, extracted_sections, page_pass_log,
                   ranked_sections, output, seg_runs, seg_first, seg_last, call>>

\* SectionExtractor._extract_sections_from_document(doc)
ExtractSectionsFromDocument ==
    /\ pc = "call"
    /\ call.fn = "extract_sections_from_document"
    /\ returned' = extract_sections_from_document(call.doc)
    /\ pc' = "returned"
    /\ UNCHANGED <<documents, persona, job_to_be_done, env, processed_docs,
                   persona_analysis, extracted_sections, page_pass_log,
                   ranked_sections, output, seg_runs, seg_first, seg_last, call>>

\* SectionExtractor._remove_duplicate_sections(sections)
RemoveDuplicateSections ==
    /\ pc = "call"
    /\ call.fn = "remove_duplicate_sections"
    /\ returned' = Ok(remove_duplicate_sections(call.sections))
    /\ pc' = "returned"
    /\ UNCHANGED <<documents, persona, job_to_be_done, env, processed_docs,
                   persona_analysis, extracted_sections, page_pass_log,
                   ranked_sections, output, seg_runs, seg_first, seg_last, call>>

\* SectionExtractor._estimate_page_number(doc, position)
EstimatePageNumber ==
    /\ pc = "call"
    /\ call.fn = "estimate_page_number"
    /\ returned' = estimate_page_number(call.doc, call.position)
    /\ pc' = "returned"
    /\ UNCHANGED <<documents, persona, job_to_be_done, env, processed_docs,
                   persona_analysis, extracted_sections, page_pass_log,
                   ranked_sections, output, seg_runs, seg_first, seg_last, call>>

\* RelevanceRanker._calculate_section_type_score(section, persona_analysis)
CalculateSectionTypeScore ==
    /\ pc = "call"
    /\ call.fn = "calculate_section_type_score"
    /\ returned' = Ok(calculate_section_type_score(
                         [SectionLib[1] EXCEPT !.section_type = call.section_type],
                         analyze_persona(<<>>, call.job)))
    /\ pc' = "returned"
    /\ UNCHANGED <<documents, persona, job_to_be_done, env, processed_docs,
                   persona_analysis, extracted_sections, page_pass_log,
                   ranked_sections, output, seg_runs, seg_first, seg_last, call>>

NextCall ==
    \/ FallbackSimilarity
    \/ ComputeSimilarity
    \/ ExtractFromFullText
    \/ CalculateSemanticSimilarity
    \/ AnalyzePersonaBasic
    \/ AnalyzePersonaEnhanced
    \/ FormatOutputOfRanked
    \/ ExtractFromPages
    \/ ExtractSectionsFromDocument
    \/ RemoveDuplicateSections
    \/ EstimatePageNumber
    \/ CalculateSectionTypeScore

SpecCall == InitCall /\ [][NextCall]_vars

\* ------------------------------------------------------------ properties

\* the output positions of the ranked list
Ranked == 1..Len(ranked_sections)

\* the input positions whose scoring returns
Scored ==
    {i \in 1..Len(extracted_sections) :
        ~calculate_relevance_score(env, extracted_sections[i], persona_analysis).exc}

\* x lies in [0, 1]
InUnitInterval(x) == 0 <= x[1] /\ x[1] <= x[2]

\* the fixed weights, in hundredths
StatedWeights ==
    [keyword_match |-> 25, semantic_similarity |-> 35, section_type_importance |-> 25,
     content_length |-> 5, position_bias |-> 5, title_relevance |-> 5]

\* the sum over the six factors of factor value times stated weight
StatedSum(f) ==
    FracAdd(FracMul(f.keyword_match, <<25, 100>>),
    FracAdd(FracMul(f.semantic_similarity, <<35, 100>>),
    FracAdd(FracMul(f.section_type_importance, <<25, 100>>),
    FracAdd(FracMul(f.content_length, <<5, 100>>),
    FracAdd(FracMul(f.position_bias, <<5, 100>>),
            FracMul(f.title_relevance, <<5, 100>>))))))

\* C1: every scored section carries exactly the six factors keyword_match,
\* semantic_similarity, section_type_importance, content_length, position_bias
\* and title_relevance, each in [0, 1]; the weights are 0.25, 0.35, 0.25, 0.05,
\* 0.05, 0.05; relevance_score is the sum of factor times weight, and so lies
\* in [0, 1].
C1_ScoreIsWeightedSum ==
    /\ ranking_weights = StatedWeights
    /\ \A k \in Ranked :
          LET r == ranked_sections[k]
          IN  /\ DOMAIN r.ranking_factors = DOMAIN StatedWeights
              /\ \A f \in DOMAIN r.ranking_factors : InUnitInterval(r.ranking_factors[f])
              /\ FracCmp(r.relevance_score, StatedSum(r.ranking_factors)) = 0
              /\ InUnitInterval(r.relevance_score)

\* a ranking whose sections have factors at 0, strictly inside (0, 1) and at 1
C1_Witness ==
    /\ pc = "ranked"
    /\ \E k \in Ranked :
          LET f == ranked_sections[k].ranking_factors
          IN  /\ f.keyword_match[1] > 0 /\ f.keyword_match[1] < f.keyword_match[2]
              /\ f.semantic_similarity = <<1, 1>>
    /\ \E k \in Ranked : ranked_sections[k].ranking_factors.title_relevance = <<0, 1>>
    /\ \E k \in Ranked :
          /\ 0 < ranked_sections[k].relevance_score[1]
          /\ ranked_sections[k].relevance_score[1] < ranked_sections[k].relevance_score[2]

\* C3: when rank_sections returns N ranked sections, the section at output
\* position i has importance_rank i, so that the ranks are exactly 1..N.
C3_RanksAreDense ==
    pc = "ranked" =>
        /\ \A k \in Ranked : ranked_sections[k].importance_rank = k
        /\ {ranked_sections[k].importance_rank : k \in Ranked} = 1..Len(ranked_sections)

\* a ranking of three sections
C3_Witness == pc = "ranked" /\ Len(ranked_sections) >= 3

\* C4: of two sections of the input list that receive equal relevance_score, the
\* one earlier in the input list receives the smaller importance_rank.
C4_StableOnTies ==
    \A a, b \in Ranked :
        /\ ranked_sections[a].section < ranked_sections[b].section
        /\ ranked_sections[a].relevance_score = ranked_sections[b].relevance_score
        => ranked_sections[a].importance_rank < ranked_sections[b].importance_rank

\* two sections with equal scores are ranked, with another section between them
\* in the input list
C4_Witness ==
    /\ pc = "ranked"
    /\ \E a, b \in Ranked :
          /\ ranked_sections[a].section + 1 < ranked_sections[b].section
          /\ ranked_sections[a].relevance_score = ranked_sections[b].relevance_score
          /\ ranked_sections[a].importance_rank + 1 = ranked_sections[b].importance_rank

\* C5: the list rank_sections returns holds every input section whose scoring
\* returned exactly once and nothing else, in one list over all documents, in
\* the order of non-increasing relevance_score.
C5_SortedPermutation ==
    pc = "ranked" =>
        /\ \A a, b \in Ranked :
              a # b => ranked_sections[a].section # ranked_sections[b].section
        /\ {ranked_sections[k].section : k \in Ranked} = Scored
        /\ \A a, b \in Ranked :
              a < b => FracLE(ranked_sections[b].relevance_score,
                              ranked_sections[a].relevance_score)

\* sections of two documents are ranked in one list, in another order than the
\* input order, and a section of the second document is ranked first
C5_Witness ==
    /\ pc = "ranked"
    /\ Len(ranked_sections) >= 3
    /\ \E a, b \in Ranked :
          /\ a < b
          /\ ranked_sections[a].section > ranked_sections[b].section
          /\ FracLT(ranked_sections[b].relevance_score, ranked_sections[a].relevance_score)
    /\ \E a, b \in Ranked :
          extracted_sections[ranked_sections[a].section].document_name
              # extracted_sections[ranked_sections[b].section].document_name

\* the positions of the document list
Docs == 1..Len(processed_docs)

\* the sections of the pooled list that carry the name of document i
SectionsOf(sections, i) ==
    SelectSeq(sections, LAMBDA x : x.document_name = processed_docs[i].filename)

\* what document i adds to the pooled list: its segments, or nothing when its
\* segmentation raises
Contribution(i) ==
    With(extract_sections_from_document(processed_docs[i]), LAMBDA r :
        IF r.exc THEN <<>> ELSE r.val)

\* the step in which extract_sections runs
ExtractionStep == pc = "analyzed" /\ pc' = "extracted"

\* C2: every ExtractedSection that extract_sections returns, from the structural
\* pass or from the page pass, has a section_text of at least 50 characters.
C2_SectionTextAtLeast50 ==
    \A k \in 1..Len(extracted_sections) : Len(extracted_sections[k].section_text) >= 50

\* the returned list holds a section of the structural pass that is shorter than
\* a page may be, and a section of the page pass
C2_Witness ==
    /\ pc = "extracted"
    /\ \E k \in 1..Len(extracted_sections) :
          /\ extracted_sections[k].confidence_score = StructuralConfidence
          /\ Len(extracted_sections[k].section_text) < 100
    /\ \E k \in 1..Len(extracted_sections) :
          extracted_sections[k].confidence_score = PageConfidence

\* C6: when documents are given, all of them are read and the pooled section
\* list is empty, rank_sections returns an empty list without raising, and
\* analyze completes with empty extracted_sections and subsection_analysis.
C6_EmptyPoolCompletes ==
    (/\ pc \in {"ranked", "raised", "done"}
     /\ documents # <<>>
     /\ Len(processed_docs) = Len(documents)
     /\ extracted_sections = <<>>) =>
        /\ pc # "raised"
        /\ ranked_sections = <<>>
        /\ pc = "done" => /\ output.extracted_sections = <<>>
                          /\ output.subsection_analysis = <<>>

\* C7: when the scoring of a section raises, rank_sections skips that section
\* and raises nothing: it returns every other section, sorted by score, with
\* the ranks 1..M.
C7_FailedSectionSkipped ==
    (pc # "extracted" /\ Scored # 1..Len(extracted_sections)) =>
        /\ pc = "ranked"
        /\ {ranked_sections[k].section : k \in Ranked} = Scored
        /\ Len(ranked_sections) = Cardinality(Scored)
        /\ \A k \in Ranked : ranked_sections[k].importance_rank = k
        /\ \A a, b \in Ranked :
              a < b => FracLE(ranked_sections[b].relevance_score,
                              ranked_sections[a].relevance_score)

\* C8: a document whose segmentation raises adds no section and the loop goes
\* on: extract_sections returns the concatenation, in the order of the document
\* list, of the segment lists of the documents whose segmentation returned.
C8_FailedDocumentSkipped ==
    [][ExtractionStep =>
          extracted_sections' = Concat([i \in Docs |-> Contribution(i)])]_vars

\* a document whose segmentation raises stands before one whose segments are
\* in the returned list
C8_Witness ==
    /\ pc = "extracted"
    /\ \E i, j \in Docs :
          /\ i < j
          /\ extract_sections_from_document(processed_docs[i]).exc
          /\ SectionsOf(extracted_sections, j) # <<>>

\* C9 as stated: for a document in which the structural pass finds at least 2
\* header matches, _extract_from_pages is not run and every returned section
\* comes from the structural pass.
C9_NoPagePassOnTwoHeaders ==
    [][ExtractionStep =>
          \A i \in Docs :
              Len(header_matches(processed_docs[i])) >= 2 =>
                  /\ ~page_pass_log'[i]
                  /\ \A k \in 1..Len(extracted_sections') :
                        extracted_sections'[k].document_name = processed_docs[i].filename
                        => extracted_sections'[k].confidence_score = StructuralConfidence]_vars

\* the sections the structural pass keeps for document i: none when it raises
StructuralSections(i) ==
    With(extract_from_full_text(processed_docs[i]), LAMBDA full :
        IF full.exc THEN <<>> ELSE full.val)

\* C9, amended: for a document for which the structural pass keeps at least 2
\* sections, _extract_from_pages is not run and every returned section comes
\* from the structural pass.
C9_NoPagePassOnTwoSections ==
    [][ExtractionStep =>
          \A i \in Docs :
              Len(StructuralSections(i)) >= 2 =>
                  /\ ~page_pass_log'[i]
                  /\ \A k \in 1..Len(extracted_sections') :
                        extracted_sections'[k].document_name = processed_docs[i].filename
                        => extracted_sections'[k].confidence_score = StructuralConfidence]_vars

\* the list holds a document with two structural sections, for which the page
\* pass was not run, and a document for which it was run
C9_Witness ==
    /\ pc = "extracted"
    /\ \E i, j \in Docs :
          /\ ~page_pass_log[i]
          /\ Len(SectionsOf(extracted_sections, i)) >= 2
          /\ \A k \in 1..Len(extracted_sections) :
                extracted_sections[k].document_name = processed_docs[i].filename
                => extracted_sections[k].confidence_score = StructuralConfidence
          /\ page_pass_log[j]
          /\ SectionsOf(extracted_sections, j) # <<>>

Returned(fn) == pc = "returned" /\ call.fn = fn

\* the lower-cased words of t: the maximal runs of characters that are not
\* whitespace
StatedWords(t) ==
    {Lower(Slice(t, a, b)) :
        <<a, b>> \in {ab \in (0..Len(t)) \X (0..Len(t)) :
                        /\ ab[1] < ab[2]
                        /\ \A r \in (ab[1] + 1)..ab[2] : t[r] \notin Whitespace
                        /\ ab[1] = 0 \/ t[ab[1]] \in Whitespace
                        /\ ab[2] = Len(t) \/ t[ab[2] + 1] \in Whitespace}}

\* C11: _fallback_similarity_score(a, b) is |A & B| / |A | B| over the
\* lower-cased whitespace-split word sets A of a and B of b, lies in [0,1], and
\* is exactly 0 whenever either word set is empty.
C11_FallbackIsJaccard ==
    Returned("fallback_similarity_score") =>
        LET A == StatedWords(call.text1)
            B == StatedWords(call.text2)
        IN  /\ ~returned.exc
            /\ InUnitInterval(returned.val)
            /\ (A = {} \/ B = {}) => returned.val = <<0, 1>>
            /\ (A # {} /\ B # {}) =>
                   returned.val[1] * Cardinality(A \cup B)
                       = returned.val[2] * Cardinality(A \cap B)

\* two strings that share a word up to case and differ in another word: the
\* overlap is strictly between 0 and 1
C11_Witness ==
    /\ Returned("fallback_similarity_score")
    /\ \E w \in StatedWords(call.text1) \cap StatedWords(call.text2) :
          w \notin WordSet(call.text1) \cap WordSet(call.text2)
    /\ 0 < returned.val[1]
    /\ returned.val[1] < returned.val[2]

\* C12: compute_similarity returns a value for any two strings and never
\* raises; with the encoder unavailable the value is that of
\* _fallback_similarity_score on the same two strings.
C12_ComputeFallsBack ==
    Returned("compute_similarity") =>
        /\ ~returned.exc
        /\ returned.val = fallback_similarity_score(call.text1, call.text2)

\* compute_similarity has returned a non-zero overlap of two different strings
C12_Witness ==
    /\ Returned("compute_similarity")
    /\ call.text1 # call.text2
    /\ returned.val[1] > 0

T_Introduction == <<"I","n","t","r","o","d","u","c","t","i","o","n">>

\* C13: for the text "1. Introduction", a line of more than 50 characters that
\* ends in a period, "2. Methods", "Short.", the structural pass returns exactly
\* one section, titled "Introduction", with a body of at least 50 characters.
C13_ScenarioYieldsIntroduction ==
    (Returned("extract_from_full_text") /\ call.doc.text_content = ScenarioText) =>
        /\ ~returned.exc
        /\ Len(returned.val) = 1
        /\ returned.val[1].section_title = T_Introduction
        /\ Len(returned.val[1].section_text) >= 50

\* some header pattern matches at offset p of text
HeaderAt(text, p) ==
    \E k \in 1..Len(header_patterns) : MatchAt(header_patterns[k], text, p).start >= 0

\* the start of the first header at or after offset p, or the end the code
\* uses for a section starting at start_pos when no header follows
NearestHeader(text, p, start_pos) ==
    LET later == {q \in p..(Len(text) - 1) : HeaderAt(text, q)}
    IN  IF later = {} THEN Min(start_pos + MaxSectionLength, Len(text))
        ELSE CHOOSE q \in later : \A r \in later : q <= r

\* C18: the search for the next header starts after the current header match
\* [start, match_end): a returned section never ends before its header match
\* does, and every header match followed by at least 50 characters of body
\* before the next header has a section in the result.
C18_SearchStartsAfterHeader ==
    (Returned("extract_from_full_text") /\ ~returned.exc) =>
        LET text == call.doc.text_content
            ms == header_matches(call.doc)
        IN  \A i \in 1..Len(ms) :
               /\ \A j \in 1..Len(returned.val) :
                      returned.val[j].start_position = ms[i].start
                      => returned.val[j].end_position >= ms[i].end
               /\ Len(Strip(Slice(text, ms[i].end,
                                  NearestHeader(text, ms[i].end, ms[i].start))))
                      >= MinSectionLength
                  => \E j \in 1..Len(returned.val) :
                        returned.val[j].start_position = ms[i].start

\* C19: the end_position of every structural section is the start of the
\* nearest header after its own header line, whichever pattern matches there,
\* or min(start + 5000, len(text)) when no header follows; and
\* start < end_position <= len(text).
C19_EndIsNearestHeader ==
    (Returned("extract_from_full_text") /\ ~returned.exc) =>
        LET text == call.doc.text_content
        IN  \A j \in 1..Len(returned.val) :
               LET start == returned.val[j].start_position
                   end_pos == returned.val[j].end_position
               IN  /\ start < end_pos
                   /\ end_pos <= Len(text)
                   /\ end_pos = NearestHeader(text, SkipUntil(text, start, {"\n"}), start)

\* ---- properties of the ranking factors (SpecRank)

\* the distinct terms of the persona analysis
DistinctTerms ==
    ToSet(persona_analysis.expertise_areas) \cup ToSet(persona_analysis.key_interests)
        \cup ToSet(persona_analysis.priority_keywords)

\* keyword_match as stated: every distinct term adds 2 when the title contains
\* it, else 1 when the body contains it; the sum is divided by 1.5 times the
\* number of distinct terms and capped at 1; without terms it is 0
StatedKeywordMatch(section) ==
    LET title == Lower(section.section_title)
        body == Lower(section.section_text)
        in_title == {t \in DistinctTerms : Contains(title, Lower(t))}
        in_body == {t \in DistinctTerms \ in_title : Contains(body, Lower(t))}
        sum == 2 * Cardinality(in_title) + Cardinality(in_body)
    IN  IF DistinctTerms = {} THEN <<0, 1>>
        ELSE IF 2 * sum >= 3 * Cardinality(DistinctTerms) THEN <<1, 1>>
        ELSE Frac(2 * sum, 3 * Cardinality(DistinctTerms))

\* C14: the keyword_match factor of every ranked section is the stated value
\* over the distinct expertise, interest and priority terms, each counted once.
C14_KeywordMatchOverDistinctTerms ==
    pc = "ranked" =>
        \A i \in Ranked :
            ranked_sections[i].ranking_factors.keyword_match
                = StatedKeywordMatch(extracted_sections[ranked_sections[i].section])

\* ---- properties of the semantic fallback chain (SpecCall)

\* the two strings _calculate_semantic_similarity_score hands to the backend
BackendContext ==
    persona_analysis.persona \o <<" ">> \o persona_analysis.job_to_be_done

BackendContent ==
    IF Len(call.section.section_text) > 0
    THEN call.section.section_title \o <<" ">> \o Slice(call.section.section_text, 0, 500)
    ELSE call.section.section_title

\* C15: when the backend call raises, the factor is the partial-match ratio;
\* when that is unavailable or raises, the Jaccard word overlap; only when that
\* raises too, 0.3; the ratio and the overlap are taken over the two strings
\* that were handed to the backend, and nothing is raised.
C15_FallbackChainInOrder ==
    (Returned("calculate_semantic_similarity_score") /\ env.backend = "raises") =>
        /\ ~returned.exc
        /\ returned.val =
              IF env.fuzz = "ok" THEN Frac(env.ratio, 100)
              ELSE Jaccard(StatedWords(BackendContext), StatedWords(BackendContent))
\* the call of the enhanced path met a failure inside: a TF-IDF fit raised, or
\* the similarity backend raised
InternalFailure ==
    call.fits.combined.exc \/ call.fits.job.exc \/ env.backend = "raises"

\* C16: analyze_persona returns for every two strings, with empty
\* expertise_areas, key_interests and priority_keywords for persona "" and
\* job ""; analyze_persona_enhanced returns too, and what it returns after a
\* failure inside is the analysis of the basic algorithm.
C16_PersonaAnalysisNeverFails ==
    /\ Returned("analyze_persona") =>
          /\ ~returned.exc
          /\ (call.persona = <<>> /\ call.job = <<>>) =>
                /\ returned.val.expertise_areas = <<>>
                /\ returned.val.key_interests = <<>>
                /\ returned.val.priority_keywords = <<>>
    /\ Returned("analyze_persona_enhanced") =>
          /\ ~returned.exc
          /\ InternalFailure => returned.val = analyze_persona(call.persona, call.job)

\* C17: for a ranked list of N sections, both lists of format_output have
\* min(5, N) entries; entry i of each carries the document and page number of
\* the section ranked i (with its title, and its refined text), and the
\* importance_rank of entry i is i.
C17_TopFiveProjected ==
    Returned("format_output") =>
        LET N == Len(call.ranked_sections)
            K == IF N < 5 THEN N ELSE 5
            out == returned.val
        IN  /\ Len(out.extracted_sections) = K
            /\ Len(out.subsection_analysis) = K
            /\ \A i \in 1..K :
                  LET section == call.sections[call.ranked_sections[i].section]
                  IN  /\ out.extracted_sections[i].document = section.document_name
                      /\ out.extracted_sections[i].page_number = section.page_number
                      /\ out.extracted_sections[i].section_title = section.section_title
                      /\ out.extracted_sections[i].importance_rank = i
                      /\ out.subsection_analysis[i].document = section.document_name
                      /\ out.subsection_analysis[i].page_number = section.page_number
                      /\ out.subsection_analysis[i].refined_text
                            = generate_refined_text(section.section_text)

\* a ranked list of more than five sections was formatted, and the section
\* ranked first is not the first of the input
C17_Witness ==
    /\ Returned("format_output")
    /\ Len(call.ranked_sections) > 5
    /\ Len(returned.val.extracted_sections) = 5
    /\ call.ranked_sections[1].section # 1

\* the first of lines for which short holds, <<>> when there is none
FirstLine(lines, short(_)) ==
    LET hits == {i \in 1..Len(lines) : short(lines[i])}
    IN  IF hits = {} THEN <<>>
        ELSE lines[CHOOSE i \in hits : \A j \in hits : i <= j]

\* the page-fallback sections of a document as stated: one for each page of
\* which measured(text) exceeds 200, in page order, with the whole page text,
\* confidence 0.5, the page's number, and the title found by title_of among
\* the first 5 lines of the page, or "Page {n} Content" when it finds none
StatedPageSections(doc, measured(_), title_of(_)) ==
    LET emitting == SelectSeq(doc.page_contents, LAMBDA pg : Len(measured(pg.text)) > 200)
    IN  [i \in 1..Len(emitting) |->
           LET found == title_of(FirstLines(emitting[i].text, 5))
           IN  [document_name |-> doc.filename,
                page_number |-> emitting[i].page_number,
                section_title |-> IF found # <<>> THEN found
                                  ELSE PageTitle(emitting[i].page_number),
                section_text |-> emitting[i].text,
                section_type |-> T_content,
                confidence_score |-> 5,
                start_position |-> 0,
                end_position |-> Len(emitting[i].text)]]

\* what the two calls return when the page-fallback sections are the stated
\* ones: _extract_from_pages returns them; _extract_sections_from_document
\* returns the structural sections, each of confidence 0.7, joined by them
\* if and only if the structural sections are fewer than 2 (without repeated
\* titles, by start position)
PagePassAsStated(measured(_), title_of(_)) ==
    /\ (Returned("extract_from_pages") /\ ~returned.exc) =>
          returned.val = StatedPageSections(call.doc, measured, title_of)
    /\ (Returned("extract_sections_from_document") /\ ~returned.exc) =>
          LET structural == extract_from_full_text(call.doc).val
              fallback == IF Len(structural) < 2
                          THEN StatedPageSections(call.doc, measured, title_of)
                          ELSE <<>>
          IN  /\ \A k \in 1..Len(structural) : structural[k].confidence_score = 7
              /\ returned.val
                    = SortedByStart(remove_duplicate_sections(structural \o fallback))

\* C20 as stated: the page-fallback pass runs if and only if the structural
\* pass produced fewer than 2 sections; it emits one section for each page
\* whose text exceeds 200 characters, with the whole page text, confidence
\* 0.5, the page's number, and as title the first line shorter than 100
\* characters among the first 5 lines, or "Page {n} Content"; structural
\* sections have confidence 0.7.
C20_PagePassPerLongPage ==
    PagePassAsStated(LAMBDA text : text,
                     LAMBDA lines : FirstLine(lines, LAMBDA line : Len(line) < 100))

\* C20, amended: the length that must exceed 200 is that of the page text
\* without the whitespace at its ends, and the title is the first of the first
\* 5 lines that, without the whitespace at its ends, is not empty and is
\* shorter than 100 characters, taken without that whitespace.
C20_PagePassPerLongStrippedPage ==
    PagePassAsStated(Strip,
                     LAMBDA lines :
                         Strip(FirstLine(lines, LAMBDA line :
                                   Len(Strip(line)) > 0 /\ Len(Strip(line)) < 100)))

\* the page pass ran for a document without structural sections and returned
\* a section for its first and its third page, not for the short second one,
\* the first with a title from the page and the other with a synthesized one
C20_Witness ==
    /\ Returned("extract_sections_from_document")
    /\ ~returned.exc
    /\ Len(call.doc.page_contents) = 3
    /\ extract_from_full_text(call.doc).val = <<>>
    /\ Len(returned.val) = 2
    /\ returned.val[1].page_number = 1
    /\ returned.val[1].section_title = <<"O", "v", "e", "r", "v", "i", "e", "w">>
    /\ returned.val[2].page_number = 3
    /\ returned.val[2].section_title = PageTitle(3)
    /\ returned.val[2].confidence_score = 5

\* the title key of a section: its title in lower case, trimmed
TitleKey(section) == Strip(Lower(section.section_title))

\* the position in a list of the first section with the title key of section
FirstOfKey(sections, section) ==
    CHOOSE i \in 1..Len(sections) :
        /\ TitleKey(sections[i]) = TitleKey(section)
        /\ \A j \in 1..(i - 1) : TitleKey(sections[j]) # TitleKey(section)

C22_SortedByStartStable ==
    (Returned("extract_sections_from_document") /\ ~returned.exc) =>
        LET sections == returned.val
            combined == CombinedCandidates(call.doc)
        IN  /\ \A k \in 1..Len(combined) :
                  \E i \in 1..Len(sections) : TitleKey(sections[i]) = TitleKey(combined[k])
            /\ \A i, j \in 1..Len(sections) :
                  i < j =>
                    /\ sections[i].start_position <= sections[j].start_position
                    /\ sections[i].start_position = sections[j].start_position
                        => FirstOfKey(combined, sections[i]) < FirstOfKey(combined, sections[j])

\* a document was segmented whose structural section starts after offset 0 and
\* is returned after two page sections, which start at 0 and stand in page
\* order
C22_Witness ==
    /\ Returned("extract_sections_from_document")
    /\ ~returned.exc
    /\ Len(returned.val) = 3
    /\ returned.val[1].confidence_score = PageConfidence
    /\ returned.val[2].confidence_score = PageConfidence
    /\ returned.val[1].start_position = returned.val[2].start_position
    /\ returned.val[1].page_number < returned.val[2].page_number
    /\ returned.val[3].confidence_score = StructuralConfidence
    /\ returned.val[3].start_position > 0
    /\ CombinedCandidates(call.doc)[1] = returned.val[3]

\* the sum over the pages before k of len(text) + 2
RECURSIVE OffsetOfPage(_, _)
OffsetOfPage(pages, k) ==
    IF k = 1 THEN 0 ELSE OffsetOfPage(pages, k - 1) + Len(pages[k - 1].text) + 2

\* the page of offset p as stated: the page_number of the first page k with
\* OffsetOfPage(k) + len(text_k) > p, that of the last page when there is none
StatedPageOf(pages, p) ==
    LET reaching == {k \in 1..Len(pages) : OffsetOfPage(pages, k) + Len(pages[k].text) > p}
    IN  IF reaching = {} THEN pages[Len(pages)].page_number
        ELSE pages[CHOOSE k \in reaching : \A q \in reaching : k <= q].page_number

StatedTypeOf(title) ==
    LET keys == <<W_abstract, W_introduction, W_methodology, W_method, W_results,
                  W_discussion, W_conclusion, W_references, W_background>>
        types == <<W_abstract, W_introduction, W_methods, W_methods, W_results,
                   W_discussion, W_conclusion, W_references, W_background>>
        hits == {i \in 1..Len(keys) : Contains(Lower(title), keys[i])}
    IN  IF hits = {} THEN T_content
        ELSE types[CHOOSE i \in hits : \A j \in hits : i <= j]

\* C24: every section that extract_sections returns, from the structural pass
\* or from the page pass, has the section_type of its title: the type of the
\* first table key that occurs in the lower-cased title, and content only when
\* no key occurs in it.
C24_TypeDerivedFromTitle ==
    \A k \in 1..Len(extracted_sections) :
        extracted_sections[k].section_type
            = StatedTypeOf(extracted_sections[k].section_title)

\* the section was made from a match of the all-caps pattern in text
FromAllCapsPattern(text, section) ==
    \E m \in ToSet(FindIter(header_patterns[2], text)) :
        /\ m.start = section.start_position
        /\ Slice(text, m.gs, m.ge) = section.section_title

\* C25: a header of the all-caps pattern is one line of upper-case letters and
\* whitespace: no section of the structural pass that comes from a match of
\* that pattern has a title with a lower-case letter or with a line break.
C25_AllCapsHeaderIsOneUpperLine ==
    (Returned("extract_from_full_text") /\ ~returned.exc) =>
        \A k \in 1..Len(returned.val) :
            FromAllCapsPattern(call.doc.text_content, returned.val[k]) =>
                \A c \in ToSet(returned.val[k].section_title) :
                    c # "\n" /\ c \notin ToSet(LowerChars)

\* the terms of every role keyword that occurs in the lower-cased persona, in
\* table order
RoleTerms(persona_text) ==
    Concat([i \in 1..Len(expertise_keywords) |->
               IF Contains(Lower(persona_text), expertise_keywords[i].key)
               THEN expertise_keywords[i].keywords ELSE <<>>])

\* C26: the expertise terms of a persona are the first 5 distinct terms, in
\* table order, of the role keywords that occur in the lower-cased persona: no
\* term twice, at most 5 terms.
C26_ExpertiseFirstFiveDistinct ==
    Returned("analyze_persona") =>
        LET areas == returned.val.expertise_areas
        IN  /\ Len(areas) <= 5
            /\ \A i, j \in 1..Len(areas) : areas[i] = areas[j] => i = j
            /\ areas = Slice(Unique(RoleTerms(call.persona)), 0, 5)

\* a word without the punctuation at its end
WithoutTrailingPunctuation(word) ==
    LET punct == {".", ",", "!", "?", ";", ":"}
        e == CHOOSE q \in 0..Len(word) :
                /\ q = 0 \/ word[q] \notin punct
                /\ \A r \in (q + 1)..Len(word) : word[r] \in punct
    IN  Slice(word, 0, e)

\* the lower-cased tokens of persona + " " + job, each without the punctuation
\* at its end
StatedTokens(persona_text, job_text) ==
    LET words == Split(Lower(persona_text \o <<" ">> \o job_text))
    IN  [i \in 1..Len(words) |-> WithoutTrailingPunctuation(words[i])]

\* the place of the first occurrence of term in terms
FirstSeen(terms, term) ==
    CHOOSE i \in 1..Len(terms) :
        terms[i] = term /\ \A j \in 1..(i - 1) : terms[j] # term

\* C27: every priority term is a lower-cased token of persona + " " + job
\* without its trailing punctuation, is longer than 3 characters and is no stop
\* word; the terms are at most 10, without repeats, in first-seen order.
C27_PriorityTermsLongAndNoStopWord ==
    Returned("analyze_persona") =>
        LET terms == returned.val.priority_keywords
            tokens == StatedTokens(call.persona, call.job)
        IN  /\ Len(terms) <= 10
            /\ \A i, j \in 1..Len(terms) : terms[i] = terms[j] => i = j
            /\ \A i \in 1..Len(terms) :
                    /\ terms[i] \in ToSet(tokens)
                    /\ Len(terms[i]) > 3
                    /\ terms[i] \notin stop_words
            /\ \A i, j \in 1..Len(terms) :
                    i < j => FirstSeen(tokens, terms[i]) < FirstSeen(tokens, terms[j])

\* the backend similarity of persona + " " + job and title + " " + the first
\* 500 characters of the body, for a section under a scenario
StatedSimilarity(section, scenario) ==
    compute_similarity(ScenarioLib[scenario].env,
                       ScenarioLib[scenario].persona \o <<" ">> \o ScenarioLib[scenario].job,
                       section.section_title \o <<" ">>
                           \o Slice(section.section_text, 0, 500)).val

\* the factor stated for the similarity s
StatedBoost(s) ==
    IF FracLE(s, <<7, 10>>) THEN s ELSE FracMin1(FracMul(<<12, 10>>, s))

\* the calls of _calculate_semantic_similarity_score whose backend answers
AnsweredSemanticCalls ==
    {c \in SemanticCalls : ScenarioLib[c.scenario].env.backend # "raises"}

\* C28: with a backend that answers s, the semantic_similarity factor is s
\* when s <= 0.7 and min(1.2 * s, 1.0) when s > 0.7; it is in [0,1], and a call
\* with a larger s never has a smaller factor.
C28_SemanticFactorBoosted ==
    (Returned("calculate_semantic_similarity_score") /\ env.backend # "raises") =>
        With(StatedSimilarity(call.section, call.scenario), LAMBDA s :
            /\ ~returned.exc
            /\ returned.val = StatedBoost(s)
            /\ FracLE(<<0, 1>>, returned.val) /\ FracLE(returned.val, <<1, 1>>)
            /\ \A c \in AnsweredSemanticCalls :
                   With(StatedSimilarity(c.section, c.scenario), LAMBDA s2 :
                       FracLE(s, s2) =>
                           FracLE(returned.val,
                                  calculate_semantic_similarity_score(
                                      ScenarioLib[c.scenario].env, c.section,
                                      analyze_persona(ScenarioLib[c.scenario].persona,
                                                      ScenarioLib[c.scenario].job)))))

\* a similarity between 0.7 and 5/6 came back multiplied by 1.2, below 1
C28_Witness ==
    /\ Returned("calculate_semantic_similarity_score")
    /\ env.backend # "raises"
    /\ FracLT(<<7, 10>>, StatedSimilarity(call.section, call.scenario))
    /\ FracLT(returned.val, <<1, 1>>)
    /\ returned.val = FracMul(<<12, 10>>, StatedSimilarity(call.section, call.scenario))

\* the profile stated for a job: review, else analysis, else exam, else default
StatedProfile(job_text) ==
    LET has(word) == Contains(Lower(job_text), word)
    IN  IF has(<<"r","e","v","i","e","w">>) THEN "review"
        ELSE IF has(<<"a","n","a","l","y","s","i","s">>) \/ has(<<"a","n","a","l","y","z","e">>)
        THEN "analysis"
        ELSE IF has(<<"e","x","a","m">>) \/ has(<<"s","t","u","d","y">>) THEN "exam"
        ELSE "default"

\* the weights of the four profiles, in tenths, for the types abstract,
\* introduction, methods, results, discussion, conclusion, references
StatedProfileWeights ==
    [review |-> <<9, 8, 7, 6, 8, 7, 5>>,
     analysis |-> <<7, 6, 9, 9, 8, 7, 3>>,
     exam |-> <<6, 8, 7, 5, 6, 8, 2>>,
     default |-> <<7, 7, 6, 6, 6, 6, 3>>]

StatedTypes ==
    << <<"a","b","s","t","r","a","c","t">>,
       <<"i","n","t","r","o","d","u","c","t","i","o","n">>,
       <<"m","e","t","h","o","d","s">>,
       <<"r","e","s","u","l","t","s">>,
       <<"d","i","s","c","u","s","s","i","o","n">>,
       <<"c","o","n","c","l","u","s","i","o","n">>,
       <<"r","e","f","e","r","e","n","c","e","s">> >>

\* C29: section_type_importance takes the review profile when the lower-cased
\* job contains 'review', else the analysis profile for 'analysis' or
\* 'analyze', else the exam profile for 'exam' or 'study', else the default
\* profile; the factor is the profile's weight for the section type, and 0.5
\* for a type the profile does not list.
C29_ProfileByPrecedence ==
    Returned("calculate_section_type_score") =>
        /\ ~returned.exc
        /\ \A i \in 1..Len(StatedTypes) :
               call.section_type = StatedTypes[i] =>
                   returned.val = Frac(StatedProfileWeights[StatedProfile(call.job)][i], 10)
        /\ call.section_type \notin ToSet(StatedTypes) => returned.val = <<1, 2>>
        /\ (StatedProfile(call.job) = "review" /\ call.section_type = StatedTypes[1]) =>
               returned.val = <<9, 10>>
        /\ (StatedProfile(call.job) = "review" /\ call.section_type = StatedTypes[7]) =>
               returned.val = <<1, 2>>

\* a job with 'analyze' and 'review' was scored with the review profile
C29_Witness ==
    /\ Returned("calculate_section_type_score")
    /\ Contains(Lower(call.job), J_analyze)
    /\ Contains(Lower(call.job), J_review)
    /\ call.section_type = W_abstract
    /\ returned.val = <<9, 10>>

\* ---- the frame of rank_sections (SpecRankSteps)

\* one statement of rank_sections leaves the RankedSection at place a as it
\* was, but for its place in the list and for one write of its rank, from 0 to
\* its place, after the sort
RankedSectionKept(a) ==
    \E b \in 1..Len(ranked_sections') :
        /\ ranked_sections'[b].section = ranked_sections[a].section
        /\ ranked_sections'[b].relevance_score = ranked_sections[a].relevance_score
        /\ ranked_sections'[b].ranking_factors = ranked_sections[a].ranking_factors
        /\ \/ ranked_sections'[b].importance_rank = ranked_sections[a].importance_rank
           \/ /\ pc = "rank_assign"
              /\ ranked_sections[a].importance_rank = 0
              /\ a = b
              /\ ranked_sections'[b].importance_rank = b

\* C30: rank_sections changes neither the section list it was given, nor a
\* field of one of its sections, nor the PersonaAnalysis; the relevance_score
\* and ranking_factors of a RankedSection stay as they were at its creation,
\* and its importance_rank is 0 until the sort is over and is then written
\* once, with its 1-based place.
C30_RankSectionsFrame ==
    /\ [](pc = "rank_loop" =>
            \A a \in 1..Len(ranked_sections) : ranked_sections[a].importance_rank = 0)
    /\ [](pc = "returned" =>
            \A a \in 1..Len(ranked_sections) : ranked_sections[a].importance_rank = a)
    /\ [][/\ extracted_sections' = extracted_sections
          /\ persona_analysis' = persona_analysis
          /\ \A a \in 1..Len(ranked_sections) : RankedSectionKept(a)]_vars

\* the call returned a list that the sort had reordered, every rank written
C30_Witness ==
    /\ pc = "returned"
    /\ call.fn = "rank_sections"
    /\ ~returned.exc
    /\ Len(returned.val) >= 2
    /\ returned.val[1].section > returned.val[2].section
    /\ returned.val[2].importance_rank = 2

====
